---- MODULE Spec2Model ----
(***************************************************************************)
(* Asynchronous correlation pipeline of lead_enrichment.                   *)
(*                                                                         *)
(* Two threads of control share one SQLite store (db/repository.py):       *)
(*   - the orchestrator (orchestrator.py, run_full_pipeline): load,        *)
(*     Lusha phase, Apollo synchronous phase, bounded wait, stop, export;  *)
(*   - the webhook listener thread (webhook/runner.py, webhook/server.py,  *)
(*     webhook/handlers.py) handling Apollo callbacks.                     *)
(* Every repository method commits before it returns, so one repository    *)
(* call is one atomic step; the two threads interleave between calls.      *)
(*                                                                         *)
(* Columns that the program writes but never reads (created_at,            *)
(* updated_at, submitted_at, lusha_raw, apollo_raw, request_at,            *)
(* response_at, http_status) are not part of the state.                    *)
(***************************************************************************)
EXTENDS Integers, Sequences, FiniteSets, TLC

\* ---------------------------------------------------------------- bounds
MaxRows == 2
MaxPeople == 2
MaxCallbacks == 2
WebhookTimeout == 6
MaxTime == 8
MaxRuns == 2
ApolloBatchSize == 2
LushaBatchSize == 2
Rate == 2
TicksPerToken == 2
MaxCallers == 2
MaxClock == 6
MaxAttempts == 3
MaxHeaderLen == 1
MaxApiRuns == 2
MaxPhones == 2
MaxStored == 2
MaxChunkRows == 5
MaxChunkSize == 3

\* ------------------------------------------------------ program constants
PollInterval == 5

NULL == "NULL"

\* _now(): a timestamp; the program only ever tests it for NULL.
Stamp == "ts"

\* A TEXT column holding a JSON dump is a sequence: <<>> is SQL NULL and
\* json.dumps(x) is <<x>>.
NullJson == <<>>

\* mark_webhook_received returns None (no tracking row); row ids start at 1.
NoneRow == 0

\* ------------------------------------------------------------ state
VARIABLES
    excel,        \* the input sheet: data rows in source order
    settings,     \* Settings: lusha_batch_size, apollo_batch_size
    rows,         \* table enrichment_rows, keyed by row_id
    tracking,     \* table webhook_tracking, in insertion (id) order
    batch_log,    \* table batch_log, in insertion order
    metadata,     \* table run_metadata
    pc,           \* orchestrator position in run_full_pipeline
    pending,      \* local `pending` of the running provider phase (row ids)
    chunks,       \* batches of the current provider phase still to submit
    resp,         \* Apollo response of the batch being saved
    idx,          \* position in the batch being saved (1-based)
    batch_id,     \* batch_id of the batch being saved
    nextBatch,    \* source of fresh batch ids (uuid4 in the code)
    phaseCount,   \* total_success / total_matched of the running phase
    total_expected, \* local of wait_for_webhooks (0 outside it)
    deadline,     \* local of wait_for_webhooks (0 outside it)
    now,          \* time.time() as wait_for_webhooks last read it, in seconds
                  \* since it started (0 outside it)
    results,      \* results dict of run_full_pipeline
    listener,     \* webhook server thread: "off", "running", "exiting"
    hPc,          \* listener position in handle_apollo_webhook
    hPeople,      \* payload.people of the callback being handled
    hIdx,         \* position of the for loop in payload.people (1-based)
    hRowId,       \* row_id returned by mark_webhook_received
    processed,    \* local counter of handle_apollo_webhook
    callbacksLeft, \* callbacks the provider will still send
    sweeps,       \* number of mark_webhook_timeouts calls of this run
    runs          \* number of runs started on this database

\* One TokenBucketRateLimiter and the coroutines that call acquire().  Time
\* is counted in ticks and the token balance in units of 1/Per of a token,
\* so that the balance and every wait are whole numbers.
VARIABLES
    burst,        \* self.burst
    tokens,       \* self._tokens, times Per
    last_refill,  \* self._last_refill
    lock,         \* holder of self._lock, NoCaller when free
    clock,        \* time.monotonic(), in ticks since construction
    aPc,          \* position of each caller in acquire()
    wake_at,      \* when the sleep of the lock holder is due to end
    completed     \* number of acquire() calls that have returned

pipelineVars ==
    <<excel, settings, rows, tracking, batch_log, metadata, pc, pending, chunks, resp,
      idx, batch_id, nextBatch, phaseCount, total_expected, deadline, now, results,
      sweeps, runs, listener, hPc, hPeople, hIdx, hRowId, processed, callbacksLeft>>

limiterVars == <<burst, tokens, last_refill, lock, clock, aPc, wake_at, completed>>

\* One call of a function wrapped by with_retry.
VARIABLES
    max_attempts, \* the decorator's max_attempts
    attempt,      \* the loop variable of the wrapper
    wPc,          \* position of the wrapper
    last_exc,     \* the wrapper's last_exc
    waits,        \* the arguments of the asyncio.sleep calls made so far
    history,      \* the outcomes of the calls of the wrapped function so far
    returned,     \* what the wrapper returned
    raised        \* what the wrapper raised

retryVars == <<max_attempts, attempt, wPc, last_exc, waits, history, returned, raised>>

\* The runs of the HTTP API (api/runner.py, api/server.py).
VARIABLES
    api_runs,     \* EnrichmentRunner._runs: run id -> run record
    tasks,        \* position of the background task of each run
    app_repo,     \* app.state.repo: the run whose repository is installed
    service_calls,    \* per run: the methods called on its EnrichmentService
    run_store,        \* per run: the phases whose writes are committed
    webhook_response  \* the latest answer of a callback endpoint

runVars == <<api_runs, tasks, app_repo, service_calls, run_store, webhook_response>>

\* One call of a phone classification function (utils/phone.py).
VARIABLES
    phone_api,     \* which provider's entries: "apollo", "lusha", "none"
    phone_list, \* the argument
    phone_pc,      \* "input" before the call, "done" after it
    phone_result         \* the value returned

phoneVars == <<phone_api, phone_list, phone_pc, phone_result>>

\* One `status` command: EnrichmentService.get_status on the database of the
\* run, from a process of its own.
VARIABLES
    status_pc,     \* "idle" before the command, "counting", "done" after it
    status_counts, \* the results of the count queries made so far, in order
    status_result  \* the dict returned, <<>> before

statusVars == <<status_pc, status_counts, status_result>>

\* One call of a repository method, or of _chunked, on a database that
\* earlier runs have filled.
VARIABLES
    call_made,     \* the call with its arguments, NoCall before
    call_ret       \* <<the value returned>>, <<>> before and for None

callVars == <<call_made, call_ret>>

\* Everything outside the pipeline.
auxVars == <<limiterVars, retryVars, runVars, phoneVars, statusVars, callVars>>

\* Everything outside the pipeline and the single call.
notCallAuxVars == <<limiterVars, retryVars, runVars, phoneVars, statusVars>>

\* Everything outside the rate limiter.
notLimiterVars == <<pipelineVars, retryVars, runVars, phoneVars, statusVars, callVars>>

\* Everything outside the retry wrapper.
notRetryVars == <<pipelineVars, limiterVars, runVars, phoneVars, statusVars, callVars>>

\* Everything outside the API runs.
notRunVars == <<pipelineVars, limiterVars, retryVars, phoneVars, statusVars, callVars>>

\* Everything outside the phone classification.
notPhoneVars == <<pipelineVars, limiterVars, retryVars, runVars, statusVars, callVars>>

\* Everything outside the status command.
notStatusVars == <<pipelineVars, limiterVars, retryVars, runVars, phoneVars, callVars>>

vars == <<pipelineVars, auxVars>>

storeVars == <<rows, tracking, batch_log, metadata>>
phaseVars == <<pending, chunks, resp, idx, batch_id, nextBatch, phaseCount>>
waitVars == <<total_expected, deadline, now>>
handlerVars == <<hPc, hPeople, hIdx, hRowId, processed, callbacksLeft>>
orchVars == <<pc, phaseVars, waitVars, results, sweeps, runs>>

\* ------------------------------------------------------------ helpers
SeqsUpTo(S, n) == UNION {[1..k -> S] : k \in 0..n}

Min(a, b) == IF a < b THEN a ELSE b

Max(a, b) == IF a > b THEN a ELSE b

\* ------------------------------------------------- db/schema.py defaults
NewRow(first_name, last_name, company) ==
    [first_name |-> first_name, last_name |-> last_name, company |-> company,
     lusha_status |-> "pending", lusha_email |-> NULL, lusha_mobile |-> NULL,
     lusha_direct |-> NULL, lusha_error |-> NULL,
     apollo_status |-> "pending", apollo_email |-> NULL,
     apollo_mobile |-> NULL, apollo_direct |-> NULL,
     apollo_person_id |-> NULL, apollo_error |-> NULL]

\* ------------------------------------------------- db/repository.py
\* Variant: INSERT OR REPLACE, which rewrites an existing row with the defaults.
upsert_row_replace(rs, row_id, first_name, last_name, company) ==
    [r \in (DOMAIN rs) \cup {row_id} |->
        IF r = row_id THEN NewRow(first_name, last_name, company) ELSE rs[r]]

\* INSERT OR IGNORE of one (row_id, first_name, last_name, company) tuple.
upsert_row(rs, row_id, first_name, last_name, company) ==
    IF row_id \in DOMAIN rs
    THEN rs
    ELSE [r \in (DOMAIN rs) \cup {row_id} |->
            IF r = row_id THEN NewRow(first_name, last_name, company) ELSE rs[r]]

RECURSIVE upsert_rows_bulk(_, _)
upsert_rows_bulk(rs, tuples) ==
    IF tuples = <<>>
    THEN rs
    ELSE upsert_rows_bulk(
            upsert_row(rs, Head(tuples)[1], Head(tuples)[2],
                       Head(tuples)[3], Head(tuples)[4]),
            Tail(tuples))

RECURSIVE SortedIds(_)
SortedIds(S) ==
    IF S = {}
    THEN <<>>
    ELSE LET m == CHOOSE x \in S : \A y \in S : x <= y
         IN <<m>> \o SortedIds(S \ {m})

\* SELECT ... WHERE {api}_status = ? ORDER BY row_id (row ids only).
get_rows_by_status(rs, api, status) ==
    SortedIds({r \in DOMAIN rs :
                 IF api = "lusha" THEN rs[r].lusha_status = status
                                  ELSE rs[r].apollo_status = status})

total_row_count(rs) == Cardinality(DOMAIN rs)

\* Variant: an INSERT OR REPLACE of the row, which resets the other columns
\* to their defaults.
update_lusha_result_replace(rs, row_id, status, email, mobile, direct, error) ==
    IF row_id \in DOMAIN rs
    THEN [rs EXCEPT ![row_id] =
            [NewRow(rs[row_id].first_name, rs[row_id].last_name, rs[row_id].company)
                EXCEPT !.lusha_status = status,
                       !.lusha_email = email,
                       !.lusha_mobile = mobile,
                       !.lusha_direct = direct,
                       !.lusha_error = error]]
    ELSE rs

update_lusha_result(rs, row_id, status, email, mobile, direct, error) ==
    IF row_id \in DOMAIN rs
    THEN [rs EXCEPT ![row_id].lusha_status = status,
                    ![row_id].lusha_email = email,
                    ![row_id].lusha_mobile = mobile,
                    ![row_id].lusha_direct = direct,
                    ![row_id].lusha_error = error]
    ELSE rs

update_apollo_sync_result(rs, row_id, status, email, person_id, error) ==
    IF row_id \in DOMAIN rs
    THEN [rs EXCEPT ![row_id].apollo_status = status,
                    ![row_id].apollo_email = email,
                    ![row_id].apollo_person_id = person_id,
                    ![row_id].apollo_error = error]
    ELSE rs

update_apollo_phone_result(rs, row_id, mobile, direct) ==
    IF row_id \in DOMAIN rs
    THEN [rs EXCEPT ![row_id].apollo_mobile = mobile,
                    ![row_id].apollo_direct = direct,
                    ![row_id].apollo_status = "complete"]
    ELSE rs

\* Variant: INSERT OR REPLACE under UNIQUE(apollo_person_id).
create_webhook_tracking_replace(tr, apollo_person_id, row_id, bid) ==
    LET fresh == [apollo_person_id |-> apollo_person_id, row_id |-> row_id,
                  batch_id |-> bid, received_at |-> NULL, payload |-> NullJson]
    IN IF \E k \in 1..Len(tr) : tr[k].apollo_person_id = apollo_person_id
       THEN [k \in 1..Len(tr) |->
               IF tr[k].apollo_person_id = apollo_person_id THEN fresh ELSE tr[k]]
       ELSE Append(tr, fresh)

\* INSERT OR IGNORE under UNIQUE(apollo_person_id).
create_webhook_tracking(tr, apollo_person_id, row_id, bid) ==
    IF \E k \in 1..Len(tr) : tr[k].apollo_person_id = apollo_person_id
    THEN tr
    ELSE Append(tr, [apollo_person_id |-> apollo_person_id, row_id |-> row_id,
                     batch_id |-> bid, received_at |-> NULL, payload |-> NullJson])

\* SELECT row_id FROM webhook_tracking WHERE apollo_person_id = ? (fetchone).
get_row_id_by_apollo_person_id(tr, apollo_person_id) ==
    IF \E k \in 1..Len(tr) : tr[k].apollo_person_id = apollo_person_id
    THEN tr[CHOOSE k \in 1..Len(tr) :
               /\ tr[k].apollo_person_id = apollo_person_id
               /\ \A j \in 1..(k - 1) : tr[j].apollo_person_id # apollo_person_id].row_id
    ELSE NoneRow

\* Variant: an upsert, which stores the callback of an unknown identifier.
mark_webhook_received_upsert(tr, apollo_person_id, stamp, payload) ==
    IF \E k \in 1..Len(tr) : tr[k].apollo_person_id = apollo_person_id
    THEN [k \in 1..Len(tr) |->
            IF tr[k].apollo_person_id = apollo_person_id
            THEN [tr[k] EXCEPT !.received_at = stamp, !.payload = payload]
            ELSE tr[k]]
    ELSE Append(tr, [apollo_person_id |-> apollo_person_id, row_id |-> NoneRow,
                     batch_id |-> 0, received_at |-> stamp, payload |-> payload])

\* Variant: the UPDATE restricted to rows not yet received.
mark_webhook_received_once(tr, apollo_person_id, stamp, payload) ==
    [k \in 1..Len(tr) |->
        IF tr[k].apollo_person_id = apollo_person_id /\ tr[k].received_at = NULL
        THEN [tr[k] EXCEPT !.received_at = stamp, !.payload = payload]
        ELSE tr[k]]

\* The UPDATE of mark_webhook_received; its return value is the lookup above.
mark_webhook_received(tr, apollo_person_id, stamp, payload) ==
    IF get_row_id_by_apollo_person_id(tr, apollo_person_id) = NoneRow
    THEN tr
    ELSE [k \in 1..Len(tr) |->
            IF tr[k].apollo_person_id = apollo_person_id
            THEN [tr[k] EXCEPT !.received_at = stamp, !.payload = payload]
            ELSE tr[k]]

\* Variant: the WHERE received_at IS NULL clause left out.
count_pending_webhooks_all(tr) == Len(tr)

count_pending_webhooks(tr) ==
    Cardinality({k \in 1..Len(tr) : tr[k].received_at = NULL})

count_total_webhooks(tr) == Len(tr)

\* Variant: the UPDATE selecting 'pending' rows.
mark_webhook_timeouts_pending(rs) ==
    [r \in DOMAIN rs |->
        IF rs[r].apollo_status = "pending"
        THEN [rs[r] EXCEPT !.apollo_status = "timeout"]
        ELSE rs[r]]

\* UPDATE ... SET apollo_status = 'timeout' WHERE apollo_status = 'awaiting_webhook'
mark_webhook_timeouts(rs) ==
    [r \in DOMAIN rs |->
        IF rs[r].apollo_status = "awaiting_webhook"
        THEN [rs[r] EXCEPT !.apollo_status = "timeout"]
        ELSE rs[r]]

\* Variant: the number of rows of the table instead of cursor.rowcount.
mark_webhook_timeouts_rowcount_total(rs) == Cardinality(DOMAIN rs)

\* cursor.rowcount of the UPDATE above.
mark_webhook_timeouts_rowcount(rs) ==
    Cardinality({r \in DOMAIN rs : rs[r].apollo_status = "awaiting_webhook"})

log_batch(bl, api, bid, row_ids) ==
    Append(bl, [api |-> api, batch_id |-> bid, row_ids |-> row_ids,
                status |-> "submitted", error |-> NULL])

update_batch_status(bl, bid, status, error) ==
    [k \in 1..Len(bl) |->
        IF bl[k].batch_id = bid
        THEN [bl[k] EXCEPT !.status = status, !.error = error]
        ELSE bl[k]]

set_metadata(md, key, value) ==
    [k \in (DOMAIN md) \cup {key} |-> IF k = key THEN value ELSE md[k]]

count_status(rs, column, status) ==
    Cardinality({r \in DOMAIN rs :
                   IF column = "lusha_status" THEN rs[r].lusha_status = status
                                              ELSE rs[r].apollo_status = status})

\* Variant: pending derived without subtracting the timeout count.
get_status_summary_no_timeout(rs) ==
    LET total == total_row_count(rs)
        lusha_complete == count_status(rs, "lusha_status", "complete")
        lusha_error == count_status(rs, "lusha_status", "error")
        apollo_complete == count_status(rs, "apollo_status", "complete")
        apollo_awaiting == count_status(rs, "apollo_status", "awaiting_webhook")
        apollo_timeout == count_status(rs, "apollo_status", "timeout")
        apollo_error == count_status(rs, "apollo_status", "error")
    IN [total_rows |-> total,
        lusha |-> [complete |-> lusha_complete,
                   error |-> lusha_error,
                   pending |-> total - lusha_complete - lusha_error],
        apollo |-> [complete |-> apollo_complete,
                    awaiting_webhook |-> apollo_awaiting,
                    timeout |-> apollo_timeout,
                    error |-> apollo_error,
                    pending |-> total - apollo_complete - apollo_awaiting
                                - apollo_error]]

get_status_summary(rs) ==
    LET total == total_row_count(rs)
        lusha_complete == count_status(rs, "lusha_status", "complete")
        lusha_error == count_status(rs, "lusha_status", "error")
        apollo_complete == count_status(rs, "apollo_status", "complete")
        apollo_awaiting == count_status(rs, "apollo_status", "awaiting_webhook")
        apollo_timeout == count_status(rs, "apollo_status", "timeout")
        apollo_error == count_status(rs, "apollo_status", "error")
    IN [total_rows |-> total,
        lusha |-> [complete |-> lusha_complete,
                   error |-> lusha_error,
                   pending |-> total - lusha_complete - lusha_error],
        apollo |-> [complete |-> apollo_complete,
                    awaiting_webhook |-> apollo_awaiting,
                    timeout |-> apollo_timeout,
                    error |-> apollo_error,
                    pending |-> total - apollo_complete - apollo_awaiting
                                - apollo_timeout - apollo_error]]


\* ------------------------------------------------- utils/phone.py
APOLLO_MOBILE_TYPES == {"mobile"}
APOLLO_DIRECT_TYPES == {"work_direct", "direct_dial", "work_hq", "other"}

APOLLO_CONFIDENCE_RANK(confidence_cd) ==
    CASE confidence_cd = "very_high" -> 4
      [] confidence_cd = "high" -> 3
      [] confidence_cd = "medium" -> 2
      [] confidence_cd = "low" -> 1
      [] OTHER -> 0

\* (s or "").lower() on the type tags that occur in the inputs.
lower(s) ==
    CASE s = NULL -> ""
      [] s = "Mobile" -> "mobile"
      [] s = "MOBILE" -> "mobile"
      [] s = "Work_Direct" -> "work_direct"
      [] s = "directDial" -> "directdial"
      [] s = "Landline" -> "landline"
      [] OTHER -> s

\* Python truthiness of an optional string.
truthy(s) == s # NULL /\ s # ""

RECURSIVE classify_apollo_loop(_, _)
classify_apollo_loop(phone_numbers, acc) ==
    IF phone_numbers = <<>>
    THEN acc
    ELSE LET phone == Head(phone_numbers)
             number == IF truthy(phone.sanitized_number)
                       THEN phone.sanitized_number ELSE phone.raw_number
             conf == APOLLO_CONFIDENCE_RANK(phone.confidence_cd)
             type_cd == lower(phone.type_cd)
             next ==
                IF ~truthy(number) THEN acc
                ELSE IF type_cd \in APOLLO_MOBILE_TYPES /\ conf > acc.best_mobile_conf
                THEN [acc EXCEPT !.mobile = number, !.best_mobile_conf = conf]
                ELSE IF type_cd \in APOLLO_DIRECT_TYPES /\ conf > acc.best_direct_conf
                THEN [acc EXCEPT !.direct = number, !.best_direct_conf = conf]
                ELSE acc
         IN classify_apollo_loop(Tail(phone_numbers), next)

classify_apollo_phones(phone_numbers) ==
    LET acc == classify_apollo_loop(phone_numbers,
                  [mobile |-> NULL, direct |-> NULL,
                   best_mobile_conf |-> -1, best_direct_conf |-> -1])
    IN [mobile |-> acc.mobile, direct_dial |-> acc.direct]

\* LushaPhoneNumber declares `number`; classify_lusha_phones reads
\* `phone.phone`, which exists only when the response carried an extra field
\* of that name.  Missing marks its absence: reading it raises AttributeError.
Missing == "<missing>"

RECURSIVE classify_lusha_loop(_, _)
classify_lusha_loop(phone_numbers, acc) ==
    IF phone_numbers = <<>> \/ acc.raised
    THEN acc
    ELSE LET phone == Head(phone_numbers)
             ptype == lower(phone.phone_type)
             next ==
                IF phone.do_not_call THEN acc
                ELSE IF ptype = "mobile" /\ ~truthy(acc.mobile)
                THEN IF phone.phone = Missing
                     THEN [acc EXCEPT !.raised = TRUE]
                     ELSE [acc EXCEPT !.mobile = phone.phone]
                ELSE IF ptype \in {"directdial", "landline"} /\ ~truthy(acc.direct_dial)
                THEN IF phone.phone = Missing
                     THEN [acc EXCEPT !.raised = TRUE]
                     ELSE [acc EXCEPT !.direct_dial = phone.phone]
                ELSE acc
         IN classify_lusha_loop(Tail(phone_numbers), next)

classify_lusha_phones(phone_numbers) ==
    classify_lusha_loop(phone_numbers,
        [raised |-> FALSE, mobile |-> NULL, direct_dial |-> NULL])

\* ------------------------------------------------- orchestrator.py
\* Variant: a last chunk shorter than size is left out.
RECURSIVE chunked_full_only(_, _)
chunked_full_only(items, size) ==
    IF Len(items) < size
    THEN <<>>
    ELSE <<SubSeq(items, 1, size)>>
         \o chunked_full_only(SubSeq(items, size + 1, Len(items)), size)

\* [items[i : i + size] for i in range(0, len(items), size)]
RECURSIVE chunked(_, _)
chunked(items, size) ==
    IF items = <<>>
    THEN <<>>
    ELSE <<SubSeq(items, 1, Min(size, Len(items)))>>
         \o chunked(SubSeq(items, Min(size, Len(items)) + 1, Len(items)), size)


\* ------------------------------------------------- clients/lusha.py
\* Best email: the last work/business address, else the first address.
RECURSIVE best_email_loop(_, _)
best_email_loop(email_addresses, email) ==
    IF email_addresses = <<>>
    THEN email
    ELSE LET addr == Head(email_addresses)
         IN best_email_loop(Tail(email_addresses),
               IF truthy(addr.email)
                  /\ (addr.email_type \in {"work", "business"} \/ ~truthy(email))
               THEN addr.email ELSE email)

\* Result: the rows after the write, or raised when classification raised.
lusha_save_contact_data(rs, row_id, data) ==
    LET email == best_email_loop(data.email_addresses, NULL)
        phones == classify_lusha_phones(data.phone_numbers)
    IN IF phones.raised
       THEN [raised |-> TRUE, rows |-> rs]
       ELSE [raised |-> FALSE,
             rows |-> update_lusha_result(rs, row_id, "complete", email,
                                          phones.mobile, phones.direct_dial, NULL)]

\* Variant: a response without contact is not written, the record stays as
\* it was.
lusha_save_single_result_skip(rs, row_id, contact) ==
    IF contact.none
    THEN [raised |-> FALSE, rows |-> rs]
    ELSE IF truthy(contact.error)
    THEN [raised |-> FALSE,
          rows |-> update_lusha_result(rs, row_id, "error", NULL, NULL, NULL,
                                       contact.error)]
    ELSE IF ~contact.has_data
    THEN [raised |-> FALSE,
          rows |-> update_lusha_result(rs, row_id, "error", NULL, NULL, NULL,
                                       "No data in contact")]
    ELSE lusha_save_contact_data(rs, row_id, contact.data)

\* A contact is [none, error, has_data, data]; none = no contact / no dict key.
lusha_save_single_result(rs, row_id, contact) ==
    IF contact.none \/ truthy(contact.error)
    THEN [raised |-> FALSE,
          rows |-> update_lusha_result(rs, row_id, "error", NULL, NULL, NULL,
                     IF contact.none THEN "No contact returned" ELSE contact.error)]
    ELSE IF ~contact.has_data
    THEN [raised |-> FALSE,
          rows |-> update_lusha_result(rs, row_id, "error", NULL, NULL, NULL,
                                       "No data in contact")]
    ELSE lusha_save_contact_data(rs, row_id, contact.data)

RECURSIVE lusha_save_bulk_results(_, _, _, _)
lusha_save_bulk_results(rs, persons, contacts, success_count) ==
    IF persons = <<>>
    THEN [raised |-> FALSE, rows |-> rs, count |-> success_count]
    ELSE LET row_id == Head(persons)
             contact == Head(contacts)
         IN IF contact.none \/ truthy(contact.error)
            THEN lusha_save_bulk_results(
                    update_lusha_result(rs, row_id, "error", NULL, NULL, NULL,
                        IF contact.none THEN "No result returned" ELSE contact.error),
                    Tail(persons), Tail(contacts), success_count)
            ELSE IF ~contact.has_data
            THEN lusha_save_bulk_results(
                    update_lusha_result(rs, row_id, "error", NULL, NULL, NULL,
                                        "No data in contact"),
                    Tail(persons), Tail(contacts), success_count)
            ELSE LET saved == lusha_save_contact_data(rs, row_id, contact.data)
                 IN IF saved.raised
                    THEN [raised |-> TRUE, rows |-> saved.rows, count |-> success_count]
                    ELSE lusha_save_bulk_results(saved.rows, Tail(persons),
                                                 Tail(contacts), success_count + 1)

\* Variant: the members are written `error` without the failure text.
RECURSIVE lusha_mark_batch_error_no_text(_, _, _)
lusha_mark_batch_error_no_text(rs, persons, text) ==
    IF persons = <<>>
    THEN rs
    ELSE lusha_mark_batch_error_no_text(
            update_lusha_result(rs, Head(persons), "error", NULL, NULL, NULL, NULL),
            Tail(persons), text)

\* The except branch: every member of the batch is written `error`.
RECURSIVE lusha_mark_batch_error(_, _, _)
lusha_mark_batch_error(rs, persons, text) ==
    IF persons = <<>>
    THEN rs
    ELSE lusha_mark_batch_error(
            update_lusha_result(rs, Head(persons), "error", NULL, NULL, NULL, text),
            Tail(persons), text)

\* enrich_and_save after log_batch.  outcome.failed: the request raised
\* (after with_retry gave up); otherwise outcome.contacts is the response.
\* Result: rows, batch status/error, success count, and whether it raised.
lusha_enrich_and_save(rs, persons, outcome) ==
    IF outcome.failed
    THEN [raised |-> TRUE, status |-> "error", error |-> "request failed",
          count |-> 0,
          rows |-> lusha_mark_batch_error(rs, persons, "request failed")]
    ELSE LET saved ==
                IF Len(persons) = 1
                THEN LET one == lusha_save_single_result(rs, persons[1],
                                                         outcome.contacts[1])
                         c == outcome.contacts[1]
                     IN [raised |-> one.raised, rows |-> one.rows,
                         count |-> IF ~c.none /\ c.has_data THEN 1 ELSE 0]
                ELSE lusha_save_bulk_results(rs, persons, outcome.contacts, 0)
         IN IF saved.raised
            THEN [raised |-> TRUE, status |-> "error", error |-> "AttributeError",
                  count |-> 0,
                  rows |-> lusha_mark_batch_error(saved.rows, persons, "AttributeError")]
            ELSE [raised |-> FALSE, status |-> "complete", error |-> NULL,
                  count |-> saved.count, rows |-> saved.rows]

\* ------------------------------------------------- clients/apollo.py
\* Variant: only the missing match is tested, not its identifier.
no_match_none_only(match) == match.none

\* A match is [none, id, email]; none = a null entry / no person.
no_match(match) == match.none \/ ~truthy(match.id)

\* Variant: a position beyond the end takes the last match of the response.
bulk_match_at_clamped(matches, i) ==
    IF i <= Len(matches) THEN matches[i]
    ELSE IF matches # <<>> THEN matches[Len(matches)]
    ELSE [none |-> TRUE, id |-> NULL, email |-> NULL]

\* matches[i] if i < len(matches) else None
bulk_match_at(matches, i) ==
    IF i <= Len(matches) THEN matches[i]
    ELSE [none |-> TRUE, id |-> NULL, email |-> NULL]

\* Variant: the status of a matched record written as `awaiting_callback`.
apollo_save_status_renamed(rs, row_id, match) ==
    IF no_match(match)
    THEN update_apollo_sync_result(rs, row_id, "error", NULL, NULL, "No match found")
    ELSE update_apollo_sync_result(rs, row_id, "awaiting_callback", match.email,
                                   match.id, NULL)

\* The update_apollo_sync_result call of _save_single_match / _save_bulk_matches.
apollo_save_status(rs, row_id, match) ==
    IF no_match(match)
    THEN update_apollo_sync_result(rs, row_id, "error", NULL, NULL, "No match found")
    ELSE update_apollo_sync_result(rs, row_id, "awaiting_webhook", match.email,
                                   match.id, NULL)

\* The except branch of enrich_and_save.
RECURSIVE apollo_mark_batch_error(_, _, _)
apollo_mark_batch_error(rs, persons, text) ==
    IF persons = <<>>
    THEN rs
    ELSE apollo_mark_batch_error(
            update_apollo_sync_result(rs, Head(persons), "error", NULL, NULL, text),
            Tail(persons), text)

\* count returned by enrich_and_save for a saved batch.
apollo_match_count(persons, matches) ==
    Cardinality({i \in 1..Len(persons) : ~no_match(bulk_match_at(matches, i))})


\* ------------------------------------------------- excel/reader.py
FlushSize == 500

\* Variant: no strip(), a cell of blanks counts as a name.
cell_text_unstripped(cell) ==
    IF cell = NULL \/ cell = "" THEN "" ELSE cell

\* str(cell).strip() if cell else "" on the cell values that occur.
cell_text(cell) ==
    IF cell = NULL \/ cell = "" \/ cell = " " THEN "" ELSE cell

\* load_excel_to_db: the loop over the data rows and the final flush.
\* st = [rows, bulk_rows, row_count]; row_idx is 1-based.
RECURSIVE load_loop(_, _, _)
load_loop(sheet, row_idx, st) ==
    IF row_idx > Len(sheet)
    THEN [rows |-> IF st.bulk_rows # <<>>
                   THEN upsert_rows_bulk(st.rows, st.bulk_rows) ELSE st.rows,
          row_count |-> st.row_count]
    ELSE LET first_name == cell_text(sheet[row_idx][1])
             last_name == cell_text(sheet[row_idx][2])
             company == cell_text(sheet[row_idx][3])
         IN IF first_name = "" \/ last_name = ""
            THEN load_loop(sheet, row_idx + 1, st)
            ELSE LET bulk == Append(st.bulk_rows,
                                    <<row_idx, first_name, last_name, company>>)
                 IN IF Len(bulk) >= FlushSize
                    THEN load_loop(sheet, row_idx + 1,
                            [rows |-> upsert_rows_bulk(st.rows, bulk),
                             bulk_rows |-> <<>>,
                             row_count |-> st.row_count + 1])
                    ELSE load_loop(sheet, row_idx + 1,
                            [rows |-> st.rows, bulk_rows |-> bulk,
                             row_count |-> st.row_count + 1])

\* Variant: the table emptied before the load.
load_excel_to_db_fresh(rs, sheet) ==
    load_loop(sheet, 1, [rows |-> <<>>, bulk_rows |-> <<>>, row_count |-> 0])

load_excel_to_db(rs, sheet) ==
    load_loop(sheet, 1, [rows |-> rs, bulk_rows |-> <<>>, row_count |-> 0])

\* ------------------------------------------------- inputs
\* Data rows of the sheet: a complete row and one whose first name is blank.
ExcelRows == {<<"Ann", "Lee", "Acme">>, <<" ", "Lee", "Acme">>}

LushaGoodData ==
    [email_addresses |-> <<[email |-> "o@acme", email_type |-> NULL],
                           [email |-> "w@acme", email_type |-> "work"]>>,
     phone_numbers |-> <<[phone_type |-> "Mobile", do_not_call |-> TRUE,
                          phone |-> "m0"],
                         [phone_type |-> "mobile", do_not_call |-> FALSE,
                          phone |-> "m1"]>>]

LushaRaisingData ==
    [email_addresses |-> <<>>,
     phone_numbers |-> <<[phone_type |-> "mobile", do_not_call |-> FALSE,
                          phone |-> Missing]>>]

LushaContacts ==
    {[none |-> TRUE, error |-> NULL, has_data |-> FALSE, data |-> LushaRaisingData],
     [none |-> FALSE, error |-> NULL, has_data |-> TRUE, data |-> LushaGoodData],
     [none |-> FALSE, error |-> NULL, has_data |-> TRUE, data |-> LushaRaisingData]}

LushaOutcomes(n) ==
    {[failed |-> TRUE, contacts |-> <<>>]}
    \cup {[failed |-> FALSE, contacts |-> c] : c \in [1..n -> LushaContacts]}

ApolloMatches ==
    {[none |-> TRUE, id |-> NULL, email |-> NULL],
     [none |-> FALSE, id |-> "", email |-> "a@acme"],
     [none |-> FALSE, id |-> "p1", email |-> "a@acme"],
     [none |-> FALSE, id |-> "p2", email |-> NULL]}

\* Single call: the `person` of the response.  Bulk call: the `matches`
\* array, possibly shorter than the request.
ApolloResponses(n) ==
    IF n = 1 THEN [1..1 -> ApolloMatches] ELSE SeqsUpTo(ApolloMatches, n)

PhoneListA ==
    <<[sanitized_number |-> "+1555", raw_number |-> "555", type_cd |-> "Mobile",
       confidence_cd |-> "high"]>>

PhoneListB ==
    <<[sanitized_number |-> NULL, raw_number |-> "030", type_cd |-> "work_direct",
       confidence_cd |-> NULL],
      [sanitized_number |-> NULL, raw_number |-> NULL, type_cd |-> "mobile",
       confidence_cd |-> "very_high"]>>

\* Person entries of a callback: without identifier, and for each identifier.
WebhookPeople ==
    {[id |-> NULL, phone_numbers |-> PhoneListA],
     [id |-> "p1", phone_numbers |-> PhoneListA],
     [id |-> "p1", phone_numbers |-> PhoneListB],
     [id |-> "p2", phone_numbers |-> PhoneListB]}

json_dumps(x) == <<x>>

\* str(total): the decimal text of a number, kept apart from the number.
str(n) == <<"str", n>>

\* ------------------------------------------------- clients/rate_limiter.py
\* rate tokens per `per` ticks: one token every TicksPerToken ticks.
Per == Rate * TicksPerToken

Callers == 1..MaxCallers

NoCaller == 0

\* min(self.burst, self._tokens + elapsed * (self.rate / self.per)), times Per
refill(tok, elapsed, b) == Min(b * Per, tok + elapsed * Rate)

\* Variant: the ratio inverted, (1.0 - tokens) * (rate / per), rounded down.
acquire_wait_inverted(tok) == ((Per - tok) * Rate) \div (Per * Per)

\* (1.0 - self._tokens) * (self.per / self.rate), in ticks; the balance is a
\* multiple of Rate in every reachable state.
acquire_wait(tok) == (Per - tok) \div Rate

\* __init__: a full bucket.
LimiterInit(bursts) ==
    /\ burst \in bursts
    /\ tokens = burst * Per
    /\ last_refill = 0
    /\ lock = NoCaller
    /\ clock = 0
    /\ aPc = [c \in Callers |-> "idle"]
    /\ wake_at = 0
    /\ completed = 0

\* A coroutine calls acquire() and reaches `async with self._lock`.
AcquireCall(c) ==
    /\ aPc[c] = "idle"
    /\ aPc' = [aPc EXCEPT ![c] = "lock"]
    /\ UNCHANGED <<notLimiterVars, burst, tokens, last_refill, lock, clock, wake_at,
                   completed>>

\* The lock is free: the caller takes it, refills, and either consumes a
\* token and returns or starts to sleep holding the lock.  No await lies
\* between taking the lock and the sleep.
AcquireEnter(c) ==
    /\ aPc[c] = "lock"
    /\ lock = NoCaller
    /\ LET refilled == refill(tokens, clock - last_refill, burst)
       IN /\ last_refill' = clock
          /\ IF refilled < Per
             THEN /\ tokens' = refilled
                  /\ lock' = c
                  /\ wake_at' = clock + acquire_wait(refilled)
                  /\ aPc' = [aPc EXCEPT ![c] = "sleep"]
                  /\ UNCHANGED completed
             ELSE /\ tokens' = refilled - Per
                  /\ aPc' = [aPc EXCEPT ![c] = "idle"]
                  /\ completed' = completed + 1
                  /\ UNCHANGED <<lock, wake_at>>
    /\ UNCHANGED <<notLimiterVars, burst, clock>>

\* asyncio.sleep(wait) returns, not before it is due: self._tokens = 0.0,
\* the lock is released and acquire() returns.
AcquireWake(c) ==
    /\ aPc[c] = "sleep"
    /\ clock >= wake_at
    /\ tokens' = 0
    /\ lock' = NoCaller
    /\ wake_at' = 0
    /\ aPc' = [aPc EXCEPT ![c] = "idle"]
    /\ completed' = completed + 1
    /\ UNCHANGED <<notLimiterVars, burst, last_refill, clock>>

\* Time passes.
ClockTick ==
    /\ clock < MaxClock
    /\ clock' = clock + 1
    /\ UNCHANGED <<notLimiterVars, burst, tokens, last_refill, lock, aPc, wake_at,
                   completed>>

\* ------------------------------------------------- utils/retry.py
RETRYABLE_STATUS_CODES == {429, 500, 502, 503, 504}

\* Statuses raise_for_status() turns into HTTPStatusError.
StatusCodes == RETRYABLE_STATUS_CODES \cup {404}

BackoffBase == 2

\* A header value is a string: a sequence of characters.
Chars == {"0", "2", "3", "x"}

DigitValue == [ch \in {"0", "2", "3"} |-> CASE ch = "0" -> 0 [] ch = "2" -> 2 [] ch = "3" -> 3]

\* response.headers.get("Retry-After"): None when the header is absent.
NoHeader == [present |-> FALSE, text |-> <<>>]

Headers ==
    {NoHeader} \cup {[present |-> TRUE, text |-> t] : t \in SeqsUpTo(Chars, MaxHeaderLen)}

\* Python truthiness of headers.get(...): None and "" are false.
header_truthy(h) == h.present /\ h.text # <<>>

\* float(text) succeeds on a non-empty string of digits ...
float_ok(t) == t # <<>> /\ \A k \in 1..Len(t) : t[k] \in DOMAIN DigitValue

\* ... and gives its decimal value; anything else raises ValueError.
RECURSIVE float(_)
float(t) ==
    IF t = <<>> THEN 0
    ELSE 10 * float(SubSeq(t, 1, Len(t) - 1)) + DigitValue[t[Len(t)]]

\* backoff_base ** attempt
RECURSIVE pow(_, _)
pow(b, n) == IF n = 0 THEN 1 ELSE b * pow(b, n - 1)

NoStatus == 0

Exc(type) == [type |-> type, status |-> NoStatus, retry_after |-> NoHeader]

HTTPStatusError(status, h) ==
    [type |-> "HTTPStatusError", status |-> status, retry_after |-> h]

\* last_exc = None
NoExc == Exc("None")

\* What one call of the wrapped function can do: return a value, or raise an
\* HTTP status error, a timeout, a connection failure or anything else.
ReturnValues == {"r1", "r2"}

Exceptions ==
    {HTTPStatusError(st, h) : st \in StatusCodes, h \in Headers}
        \cup {Exc("TimeoutException"), Exc("ConnectError"), Exc("KeyError")}

\* Variant: 404 counted among the retryable statuses.
is_retryable_status_any(status) == status \in RETRYABLE_STATUS_CODES \cup {404}

\* status in retryable_status_codes
is_retryable_status(status) == status \in RETRYABLE_STATUS_CODES

\* Variant: every exception other than a status error is caught.
is_transport_error_any(type) == type # "HTTPStatusError"

\* except (httpx.TimeoutException, httpx.ConnectError)
is_transport_error(type) == type \in {"TimeoutException", "ConnectError"}

RetryInit(budgets) ==
    /\ max_attempts \in budgets
    /\ attempt = 0
    /\ wPc = "start"
    /\ last_exc = NoExc
    /\ waits = <<>>
    /\ history = <<>>
    /\ returned = NULL
    /\ raised = NoExc

\* The wrapper is called: the loop starts, or, with an empty range, control
\* reaches `raise last_exc` with last_exc = None, which is a TypeError.
RetryBegin ==
    /\ wPc = "start"
    /\ IF max_attempts >= 1
       THEN /\ attempt' = 1
            /\ wPc' = "call"
            /\ UNCHANGED raised
       ELSE /\ wPc' = "raised"
            /\ raised' = Exc("TypeError")
            /\ UNCHANGED attempt
    /\ UNCHANGED <<notRetryVars, max_attempts, last_exc, waits, history, returned>>

\* return await func(...)
RetryCallReturns ==
    /\ wPc = "call"
    /\ \E v \in ReturnValues :
         /\ history' = Append(history, [ok |-> TRUE, value |-> v, exc |-> NoExc])
         /\ returned' = v
    /\ wPc' = "returned"
    /\ UNCHANGED <<notRetryVars, max_attempts, attempt, last_exc, waits, raised>>

\* except httpx.HTTPStatusError
RetryCallStatusError ==
    /\ wPc = "call"
    /\ \E st \in StatusCodes, h \in Headers :
         LET exc == HTTPStatusError(st, h)
         IN /\ history' = Append(history, [ok |-> FALSE, value |-> NULL, exc |-> exc])
            /\ IF ~is_retryable_status(st) \/ attempt = max_attempts
               THEN /\ raised' = exc
                    /\ wPc' = "raised"
                    /\ UNCHANGED <<last_exc, waits>>
               ELSE /\ last_exc' = exc
                    /\ IF st = 429 /\ header_truthy(h) /\ ~float_ok(h.text)
                       THEN \* float(retry_after) raises inside the handler
                            /\ raised' = Exc("ValueError")
                            /\ wPc' = "raised"
                            /\ UNCHANGED waits
                       ELSE /\ waits' = Append(waits,
                                   IF st = 429 /\ header_truthy(h)
                                   THEN float(h.text)
                                   ELSE pow(BackoffBase, attempt))
                            /\ wPc' = "sleep"
                            /\ UNCHANGED raised
    /\ UNCHANGED <<notRetryVars, max_attempts, attempt, returned>>

\* Any other exception: the two transport errors are caught, the rest leave
\* the wrapper as they are.
RetryCallOtherError ==
    /\ wPc = "call"
    /\ \E type \in {"TimeoutException", "ConnectError", "KeyError"} :
         LET exc == Exc(type)
         IN /\ history' = Append(history, [ok |-> FALSE, value |-> NULL, exc |-> exc])
            /\ IF ~is_transport_error(type) \/ attempt = max_attempts
               THEN /\ raised' = exc
                    /\ wPc' = "raised"
                    /\ UNCHANGED <<last_exc, waits>>
               ELSE /\ last_exc' = exc
                    /\ waits' = Append(waits, pow(BackoffBase, attempt))
                    /\ wPc' = "sleep"
                    /\ UNCHANGED raised
    /\ UNCHANGED <<notRetryVars, max_attempts, attempt, returned>>

\* asyncio.sleep(wait) returns and the loop goes on; past the end of the
\* range it would reach `raise last_exc`.
RetryWake ==
    /\ wPc = "sleep"
    /\ attempt' = attempt + 1
    /\ IF attempt + 1 <= max_attempts
       THEN wPc' = "call" /\ UNCHANGED raised
       ELSE wPc' = "raised" /\ raised' = last_exc
    /\ UNCHANGED <<notRetryVars, max_attempts, last_exc, waits, history, returned>>

\* ------------------------------------------------- clients/base.py
\* A client method wrapped by with_retry (match_single, match_bulk,
\* enrich_single, enrich_bulk): every call of the wrapped function goes
\* through BaseAPIClient._request.  The client is caller 1 of its limiter;
\* `done` is the number of acquire() calls that have returned and `sent` the
\* number of requests made so far in this call of the method.

\* Variant: the limiter is entered for the first attempt only.
request_ready_first_only(done, sent) == done >= 1

\* _request is past `async with self._limiter`: the acquire() of this attempt
\* has returned and its request is not made yet.
request_ready(done, sent) == done = sent + 1

\* _request is entered: __aenter__ calls acquire().
RequestEnter ==
    /\ wPc = "call"
    /\ completed = Len(history)
    /\ AcquireCall(1)

\* acquire() goes on: it takes the lock, or its sleep ends.
RequestAcquire == AcquireEnter(1) \/ AcquireWake(1)

\* self._client.request(...) and response.raise_for_status(): the request is
\* made and the wrapped function returns or raises.
RequestSend ==
    /\ request_ready(completed, Len(history))
    /\ aPc[1] = "idle"
    /\ (RetryCallReturns \/ RetryCallStatusError \/ RetryCallOtherError)

\* ------------------------------------------------- api/runner.py
RunIds == 1..MaxApiRuns

\* RunStatus
RunStatus ==
    {"pending", "loading", "enriching_lusha", "enriching_apollo", "waiting_webhooks",
     "exporting", "completed", "failed"}

\* A run id that create_run has not produced yet is not a key of _runs.
NoRun == [status |-> NULL, output_file |-> NULL, error_message |-> NULL]

\* app.state.repo = None
NoRepo == 0

\* No callback answered yet.
NoResponse == [endpoint |-> NULL, status_code |-> 0, status |-> NULL]

\* update_run(run_id, status=...)
update_run(id, st) == [api_runs EXCEPT ![id].status = st]

RunInit ==
    /\ api_runs = [id \in RunIds |-> NoRun]
    /\ tasks = [id \in RunIds |-> "none"]
    /\ app_repo = NoRepo
    /\ service_calls = [id \in RunIds |-> <<>>]
    /\ run_store = [id \in RunIds |-> <<>>]
    /\ webhook_response = NoResponse

\* POST /api/enrich with an .xlsx file and a valid configuration: create_run,
\* save the upload, construct the service and start the background task.  If
\* saving the upload fails the handler answers 500 and starts no task.  The
\* handler has no await between these statements.
StartEnrichment(id) ==
    /\ api_runs[id] = NoRun
    /\ \A j \in RunIds : j < id => api_runs[j] # NoRun
    /\ api_runs' = [api_runs EXCEPT ![id] = [NoRun EXCEPT !.status = "pending"]]
    /\ \E saved \in BOOLEAN :
         tasks' = [tasks EXCEPT ![id] = IF saved THEN "begin" ELSE "none"]
    /\ UNCHANGED <<notRunVars, app_repo, service_calls, run_store, webhook_response>>

\* Variant: the failure recorded without its message.
run_failed_no_message(id, e) == [api_runs EXCEPT ![id].status = "failed"]

\* except Exception as e: update_run(status=FAILED, error_message=str(e))
run_failed(id, e) ==
    [api_runs EXCEPT ![id].status = "failed", ![id].error_message = e]

\* Variant: close() only where the run completed.
called_then_closed_on_success(calls, id, method, ok) ==
    [calls EXCEPT ![id] = IF ok THEN calls[id] \o <<method, "close">>
                          ELSE Append(calls[id], method)]

\* The service method called last in the task, then finally: service.close().
called_then_closed(calls, id, method, ok) ==
    [calls EXCEPT ![id] = calls[id] \o <<method, "close">>]

\* A service method returned: its writes are committed.  It raised: the
\* writes it had committed before are kept, the except clause touches nothing.
committed(store, id, phase, ok, partial) ==
    [store EXCEPT ![id] = IF ok \/ partial THEN Append(store[id], phase) ELSE store[id]]

\* The task starts: update_run(run_id, status=RunStatus.LOADING)
RunBegin(id) ==
    /\ tasks[id] = "begin"
    /\ api_runs' = update_run(id, "loading")
    /\ tasks' = [tasks EXCEPT ![id] = "load"]
    /\ UNCHANGED <<notRunVars, app_repo, service_calls, run_store, webhook_response>>

\* service.load_excel returns: the repository is installed and the status
\* becomes ENRICHING_LUSHA; or it raises.
RunLoad(id) ==
    /\ tasks[id] = "load"
    /\ \E ok \in BOOLEAN, partial \in BOOLEAN :
         /\ run_store' = committed(run_store, id, "load_excel", ok, partial)
         /\ IF ok
            THEN /\ app_repo' = id
                 /\ api_runs' = update_run(id, "enriching_lusha")
                 /\ tasks' = [tasks EXCEPT ![id] = "lusha"]
                 /\ service_calls' =
                       [service_calls EXCEPT ![id] = Append(@, "load_excel")]
            ELSE /\ api_runs' = run_failed(id, "load_excel")
                 /\ tasks' = [tasks EXCEPT ![id] = "done"]
                 /\ service_calls' =
                       called_then_closed(service_calls, id, "load_excel", FALSE)
                 /\ UNCHANGED app_repo
    /\ UNCHANGED <<notRunVars, webhook_response>>

\* await service.enrich_lusha() returns or raises; the inner finally clears
\* app.state.repo on the way to the except clause.
RunLusha(id) ==
    /\ tasks[id] = "lusha"
    /\ \E ok \in BOOLEAN, partial \in BOOLEAN :
         /\ run_store' = committed(run_store, id, "enrich_lusha", ok, partial)
         /\ IF ok
            THEN /\ api_runs' = update_run(id, "enriching_apollo")
                 /\ tasks' = [tasks EXCEPT ![id] = "apollo"]
                 /\ service_calls' =
                       [service_calls EXCEPT ![id] = Append(@, "enrich_lusha")]
                 /\ UNCHANGED app_repo
            ELSE /\ app_repo' = NoRepo
                 /\ api_runs' = run_failed(id, "enrich_lusha")
                 /\ tasks' = [tasks EXCEPT ![id] = "done"]
                 /\ service_calls' =
                       called_then_closed(service_calls, id, "enrich_lusha", FALSE)
    /\ UNCHANGED <<notRunVars, webhook_response>>

\* await service.enrich_apollo_sync() returns or raises.
RunApollo(id) ==
    /\ tasks[id] = "apollo"
    /\ \E ok \in BOOLEAN, partial \in BOOLEAN :
         /\ run_store' = committed(run_store, id, "enrich_apollo_sync", ok, partial)
         /\ IF ok
            THEN /\ api_runs' = update_run(id, "waiting_webhooks")
                 /\ tasks' = [tasks EXCEPT ![id] = "wait"]
                 /\ service_calls' =
                       [service_calls EXCEPT ![id] = Append(@, "enrich_apollo_sync")]
                 /\ UNCHANGED app_repo
            ELSE /\ app_repo' = NoRepo
                 /\ api_runs' = run_failed(id, "enrich_apollo_sync")
                 /\ tasks' = [tasks EXCEPT ![id] = "done"]
                 /\ service_calls' =
                       called_then_closed(service_calls, id, "enrich_apollo_sync",
                                          FALSE)
    /\ UNCHANGED <<notRunVars, webhook_response>>

\* await service.wait_for_webhooks() returns or raises; either way the inner
\* finally clears app.state.repo.
RunWait(id) ==
    /\ tasks[id] = "wait"
    /\ app_repo' = NoRepo
    /\ \E ok \in BOOLEAN, partial \in BOOLEAN :
         /\ run_store' = committed(run_store, id, "wait_for_webhooks", ok, partial)
         /\ IF ok
            THEN /\ api_runs' = update_run(id, "exporting")
                 /\ tasks' = [tasks EXCEPT ![id] = "export"]
                 /\ service_calls' =
                       [service_calls EXCEPT ![id] = Append(@, "wait_for_webhooks")]
            ELSE /\ api_runs' = run_failed(id, "wait_for_webhooks")
                 /\ tasks' = [tasks EXCEPT ![id] = "done"]
                 /\ service_calls' =
                       called_then_closed(service_calls, id, "wait_for_webhooks",
                                          FALSE)
    /\ UNCHANGED <<notRunVars, webhook_response>>

\* service.export_excel returns (COMPLETED with the output file) or raises;
\* export reads the store and writes the output file.
RunExport(id) ==
    /\ tasks[id] = "export"
    /\ \E ok \in BOOLEAN :
         /\ IF ok
            THEN api_runs' = [api_runs EXCEPT ![id].status = "completed",
                                              ![id].output_file = "enriched.xlsx"]
            ELSE api_runs' = run_failed(id, "export_excel")
         /\ service_calls' = called_then_closed(service_calls, id, "export_excel", ok)
    /\ tasks' = [tasks EXCEPT ![id] = "done"]
    /\ UNCHANGED <<notRunVars, app_repo, run_store, webhook_response>>

\* A step of the background task of run id.
RunTask(id) ==
    RunBegin(id) \/ RunLoad(id) \/ RunLusha(id) \/ RunApollo(id) \/ RunWait(id)
        \/ RunExport(id)

\* ------------------------------------------------- callback endpoints
\* What a POST /webhook/apollo can carry: a body that is not JSON, JSON that
\* ApolloWebhookPayload rejects, and a valid payload.
WebhookBodies == {"undecodable", "invalid", "valid"}

\* An exception that no handler of the application catches: the framework
\* answers 500.
unhandled(endpoint) ==
    [endpoint |-> endpoint, status_code |-> 500, status |-> NULL]

\* JSONResponse(content), status 200
json_response(endpoint, status) ==
    [endpoint |-> endpoint, status_code |-> 200, status |-> status]

\* api/server.py receive_apollo_webhook: request.json(), the test of
\* app.state.repo, then validation and the handler inside try/except.
api_receive_apollo_webhook(body, repo, handler_raises) ==
    IF body = "undecodable" THEN unhandled("api")
    ELSE IF repo = NoRepo THEN json_response("api", "no_session")
    ELSE IF body = "invalid" \/ handler_raises THEN json_response("api", "error")
    ELSE json_response("api", "received")

\* webhook/server.py receive_apollo_webhook: request.json(), then validation,
\* request.app.state.repo and the handler inside try/except.
cli_receive_apollo_webhook(body, handler_raises) ==
    IF body = "undecodable" THEN unhandled("webhook")
    ELSE IF body = "invalid" \/ handler_raises THEN json_response("webhook", "error")
    ELSE json_response("webhook", "received")

\* A callback reaches the endpoint of the API application.
ApiReceiveWebhook ==
    /\ \E body \in WebhookBodies, handler_raises \in BOOLEAN :
         webhook_response' = api_receive_apollo_webhook(body, app_repo, handler_raises)
    /\ UNCHANGED <<notRunVars, api_runs, tasks, app_repo, service_calls, run_store>>

\* A callback reaches the endpoint of the listener of the command line run.
CliReceiveWebhook ==
    /\ \E body \in WebhookBodies, handler_raises \in BOOLEAN :
         webhook_response' = cli_receive_apollo_webhook(body, handler_raises)
    /\ UNCHANGED <<notRunVars, api_runs, tasks, app_repo, service_calls, run_store>>

\* ------------------------------------------------- phone classification
\* Phone entries of a callback.  ApolloPhoneNumber declares the number, the
\* type and the confidence and allows extra fields: do_not_call stands for
\* the provider's do-not-call flag, which the model class does not declare.
ApolloPhoneEntries ==
    [sanitized_number : {NULL, "n1", "n2"}, raw_number : {"n1"},
     type_cd : {NULL, "Mobile", "work_direct"},
     confidence_cd : {"high", "low"}, do_not_call : BOOLEAN]

\* Phone entries of a Lusha contact, as classify_lusha_phones reads them.
LushaPhoneEntries ==
    [phone : {"n1", "n2", Missing}, phone_type : {NULL, "mobile", "directDial", "Landline"},
     do_not_call : BOOLEAN]

NoPhones == [mobile |-> NULL, direct_dial |-> NULL]

\* No classification in progress.
PhoneIdle ==
    /\ phone_api = "none"
    /\ phone_list = <<>>
    /\ phone_pc = "input"
    /\ phone_result = NoPhones

\* A list of entries of either provider, about to be classified.
PhoneInit ==
    /\ \/ phone_api = "apollo" /\ phone_list \in SeqsUpTo(ApolloPhoneEntries, MaxPhones)
       \/ phone_api = "lusha" /\ phone_list \in SeqsUpTo(LushaPhoneEntries, MaxPhones)
    /\ phone_pc = "input"
    /\ phone_result = NoPhones

\* classify_apollo_phones(person.phone_numbers), as the handler calls it.
ClassifyApollo ==
    /\ phone_pc = "input"
    /\ phone_api = "apollo"
    /\ phone_result' = classify_apollo_phones(phone_list)
    /\ phone_pc' = "done"
    /\ UNCHANGED <<notPhoneVars, phone_api, phone_list>>

\* classify_lusha_phones(data.phone_numbers), as _save_contact_data calls it;
\* nothing is returned when reading an entry raises.
ClassifyLusha ==
    /\ phone_pc = "input"
    /\ phone_api = "lusha"
    /\ LET got == classify_lusha_phones(phone_list)
       IN IF got.raised
          THEN phone_pc' = "raised" /\ UNCHANGED phone_result
          ELSE /\ phone_result' = [mobile |-> got.mobile, direct_dial |-> got.direct_dial]
               /\ phone_pc' = "done"
    /\ UNCHANGED <<notPhoneVars, phone_api, phone_list>>

\* ------------------------------------------------- the status command
\* The count queries of get_status_summary in the order it makes them: each
\* is one SELECT, a read of its own of the committed database.
StatusQueries ==
    <<[column |-> "*", status |-> "*"],
      [column |-> "lusha_status", status |-> "complete"],
      [column |-> "lusha_status", status |-> "error"],
      [column |-> "apollo_status", status |-> "complete"],
      [column |-> "apollo_status", status |-> "awaiting_webhook"],
      [column |-> "apollo_status", status |-> "timeout"],
      [column |-> "apollo_status", status |-> "error"]>>

\* What one of the queries returns on the table as it is now.
status_query(rs, q) ==
    IF q.column = "*" THEN total_row_count(rs)
    ELSE count_status(rs, q.column, q.status)

\* The dict get_status_summary builds from its seven counts.
status_summary(c) ==
    [total_rows |-> c[1],
     lusha |-> [complete |-> c[2],
                error |-> c[3],
                pending |-> c[1] - c[2] - c[3]],
     apollo |-> [complete |-> c[4],
                 awaiting_webhook |-> c[5],
                 timeout |-> c[6],
                 error |-> c[7],
                 pending |-> c[1] - c[4] - c[5] - c[6] - c[7]]]

StatusIdle ==
    /\ status_pc = "idle"
    /\ status_counts = <<>>
    /\ status_result = <<>>

\* The run whose database the command reads is waiting for callbacks or past
\* that: the provider phases are over.
StatusWhen ==
    {"wait_begin", "wait_check", "wait_poll", "wait_sleep", "wait_sweep", "stop",
     "export", "summary", "done"}

\* `python -m lead_enrichment status` is started.
StatusBegin ==
    /\ status_pc = "idle"
    /\ pc \in StatusWhen
    /\ status_pc' = "counting"
    /\ UNCHANGED <<notStatusVars, status_counts, status_result>>

\* The next count query of get_status_summary.
StatusCount ==
    /\ status_pc = "counting"
    /\ Len(status_counts) < Len(StatusQueries)
    /\ status_counts' = Append(status_counts,
                               status_query(rows, StatusQueries[Len(status_counts) + 1]))
    /\ UNCHANGED <<notStatusVars, status_pc, status_result>>

\* get_status_summary returns the dict.
StatusReturn ==
    /\ status_pc = "counting"
    /\ Len(status_counts) = Len(StatusQueries)
    /\ status_result' = status_summary(status_counts)
    /\ status_pc' = "done"
    /\ UNCHANGED <<notStatusVars, status_counts>>

\* ------------------------------------------------- single calls
NoCall == [fn |-> "none"]

CallIdle ==
    /\ call_made = NoCall
    /\ call_ret = <<>>

\* Records as runs leave them: untouched; Lusha done and Apollo not yet;
\* awaiting a callback; completed by a callback; without data or match;
\* timed out.
StoredRecords ==
    {NewRow("Ann", "Lee", "Acme"),
     [NewRow("Ann", "Lee", "Acme") EXCEPT
         !.lusha_status = "complete", !.lusha_email = "w@acme",
         !.lusha_mobile = "m1"],
     [NewRow("Ann", "Lee", "Acme") EXCEPT
         !.lusha_status = "error", !.lusha_error = "No data in contact",
         !.apollo_status = "awaiting_webhook", !.apollo_email = "a@acme",
         !.apollo_person_id = "p1"],
     [NewRow("Ann", "Lee", "Acme") EXCEPT
         !.lusha_status = "complete", !.lusha_email = "w@acme",
         !.lusha_mobile = "m1",
         !.apollo_status = "complete", !.apollo_person_id = "p2",
         !.apollo_mobile = "+1555"],
     [NewRow("Ann", "Lee", "Acme") EXCEPT
         !.lusha_status = "error", !.lusha_error = "request failed",
         !.apollo_status = "error", !.apollo_error = "No match found"],
     [NewRow("Ann", "Lee", "Acme") EXCEPT
         !.lusha_status = "complete", !.lusha_direct = "d1",
         !.apollo_status = "timeout", !.apollo_email = "a@acme",
         !.apollo_person_id = "p1"]}

\* The correlations of a table of records: one per person identifier, owned
\* by the first record matched to it, received when that record is complete.
RECURSIVE stored_tracking(_, _, _)
stored_tracking(rs, r, tr) ==
    IF r \notin DOMAIN rs
    THEN tr
    ELSE IF rs[r].apollo_person_id = NULL
    THEN stored_tracking(rs, r + 1, tr)
    ELSE LET made == create_webhook_tracking(tr, rs[r].apollo_person_id, r, 2)
         IN stored_tracking(rs, r + 1,
               IF rs[r].apollo_status = "complete"
               THEN mark_webhook_received(made, rs[r].apollo_person_id, Stamp, NullJson)
               ELSE made)

\* The batch log of such a table: one batch per provider of the records
\* submitted to it.
stored_batch_log(rs) ==
    LET lusha_ids == SortedIds({r \in DOMAIN rs : rs[r].lusha_status # "pending"})
        apollo_ids == SortedIds({r \in DOMAIN rs : rs[r].apollo_status # "pending"})
        first == IF lusha_ids = <<>> THEN <<>>
                 ELSE update_batch_status(log_batch(<<>>, "lusha", 1, lusha_ids),
                                          1, "complete", NULL)
    IN IF apollo_ids = <<>> THEN first
       ELSE update_batch_status(log_batch(first, "apollo", 2, apollo_ids),
                                2, "complete", NULL)

\* A new process on the database that holds the records rs.
StoredInit(rs, configs) ==
    /\ excel = <<>>
    /\ rows = rs
    /\ tracking = stored_tracking(rs, 1, <<>>)
    /\ settings \in configs
    /\ batch_log = stored_batch_log(rs)
    /\ metadata = <<>>
    /\ pc = "load"
    /\ pending = <<>> /\ chunks = <<>> /\ resp = <<>> /\ idx = 1
    /\ batch_id = 0 /\ nextBatch = 3 /\ phaseCount = 0
    /\ total_expected = 0 /\ deadline = 0 /\ now = 0
    /\ results = <<>> /\ sweeps = 0 /\ runs = 1
    /\ listener = "off" /\ hPc = "idle" /\ hPeople = <<>> /\ hIdx = 1
    /\ hRowId = NoneRow /\ processed = 0 /\ callbacksLeft = 0

\* Everything of the pipeline but the table enrichment_rows.
notRowsVars ==
    <<excel, settings, tracking, batch_log, metadata, orchVars, listener, handlerVars>>

\* Arguments of the update calls as the clients and the handler pass them.
LushaUpdates ==
    {[status |-> "complete", email |-> "o@acme", mobile |-> NULL, direct |-> "d2",
      error |-> NULL],
     [status |-> "error", email |-> NULL, mobile |-> NULL, direct |-> NULL,
      error |-> "No contact returned"]}

ApolloSyncUpdates ==
    {[status |-> "awaiting_webhook", email |-> NULL, person_id |-> "p2",
      error |-> NULL],
     [status |-> "error", email |-> NULL, person_id |-> NULL,
      error |-> "No match found"]}

ApolloPhoneUpdates ==
    {[mobile |-> "+1555", direct |-> NULL], [mobile |-> NULL, direct |-> "030"]}

\* repo.mark_webhook_timeouts()
MarkWebhookTimeoutsCall ==
    /\ call_made = NoCall
    /\ rows' = mark_webhook_timeouts(rows)
    /\ call_made' = [fn |-> "mark_webhook_timeouts"]
    /\ call_ret' = <<mark_webhook_timeouts_rowcount(rows)>>
    /\ UNCHANGED <<notRowsVars, notCallAuxVars>>

\* repo.update_lusha_result(row_id, status=..., ...)
UpdateLushaResultCall ==
    /\ call_made = NoCall
    /\ \E row_id \in 1..MaxStored, u \in LushaUpdates :
          /\ rows' = update_lusha_result(rows, row_id, u.status, u.email, u.mobile,
                                         u.direct, u.error)
          /\ call_made' = [fn |-> "update_lusha_result", row_id |-> row_id]
    /\ call_ret' = <<>>
    /\ UNCHANGED <<notRowsVars, notCallAuxVars>>

\* repo.update_apollo_sync_result(row_id, status=..., ...)
UpdateApolloSyncResultCall ==
    /\ call_made = NoCall
    /\ \E row_id \in 1..MaxStored, u \in ApolloSyncUpdates :
          /\ rows' = update_apollo_sync_result(rows, row_id, u.status, u.email,
                                               u.person_id, u.error)
          /\ call_made' = [fn |-> "update_apollo_sync_result", row_id |-> row_id]
    /\ call_ret' = <<>>
    /\ UNCHANGED <<notRowsVars, notCallAuxVars>>

\* repo.update_apollo_phone_result(row_id, mobile=..., direct=...)
UpdateApolloPhoneResultCall ==
    /\ call_made = NoCall
    /\ \E row_id \in 1..MaxStored, u \in ApolloPhoneUpdates :
          /\ rows' = update_apollo_phone_result(rows, row_id, u.mobile, u.direct)
          /\ call_made' = [fn |-> "update_apollo_phone_result", row_id |-> row_id]
    /\ call_ret' = <<>>
    /\ UNCHANGED <<notRowsVars, notCallAuxVars>>

\* _chunked(pending, batch_size) of a provider phase, pending being
\* get_persons_from_db(repo, api, "pending"); the phase returns before it
\* when nothing is pending.
ChunkedCall ==
    /\ call_made = NoCall
    /\ \E api \in {"lusha", "apollo"} :
          LET p == get_rows_by_status(rows, api, "pending")
              size == IF api = "lusha" THEN settings.lusha_batch_size
                      ELSE settings.apollo_batch_size
          IN /\ p # <<>>
             /\ call_made' = [fn |-> "_chunked", api |-> api, items |-> p, size |-> size]
             /\ call_ret' = <<chunked(p, size)>>
    /\ UNCHANGED <<pipelineVars, notCallAuxVars>>

\* ------------------------------------------------- initial state
\* A process before it runs a command, with settings from configs; the
\* provider will send n callbacks.
ProcessInit(n, configs) ==
    /\ settings \in configs
    /\ batch_log = <<>>
    /\ metadata = <<>>
    /\ pc = "load"
    /\ pending = <<>>
    /\ chunks = <<>>
    /\ resp = <<>>
    /\ idx = 1
    /\ batch_id = 0
    /\ nextBatch = 1
    /\ phaseCount = 0
    /\ total_expected = 0
    /\ deadline = 0
    /\ now = 0
    /\ results = <<>>
    /\ listener = "off"
    /\ hPc = "idle"
    /\ hPeople = <<>>
    /\ hIdx = 1
    /\ hRowId = NoneRow
    /\ processed = 0
    /\ callbacksLeft = n
    /\ sweeps = 0
    /\ runs = 1

\* A fresh database, a sheet and settings from configs; the provider will
\* send n callbacks.
PipelineInit(n, configs) ==
    /\ excel \in SeqsUpTo(ExcelRows, MaxRows)
    /\ rows = <<>>
    /\ tracking = <<>>
    /\ ProcessInit(n, configs)

\* The limiter of a client as the client constructs it (burst = rate).
AuxInit ==
    /\ LimiterInit({Rate}) /\ RetryInit({MaxAttempts}) /\ RunInit /\ PhoneIdle
    /\ StatusIdle /\ CallIdle

InitFor(n, configs) == PipelineInit(n, configs) /\ AuxInit

\* The batch sizes at their largest.
InitWith(n) ==
    InitFor(n, {[lusha_batch_size |-> LushaBatchSize,
                 apollo_batch_size |-> ApolloBatchSize]})

Init == InitWith(MaxCallbacks)

\* results[key] = value
put(d, key, value) ==
    [k \in (DOMAIN d) \cup {key} |-> IF k = key THEN value ELSE d[k]]

\* ------------------------------------------------- orchestrator actions
\* Phase 1, load_excel, followed by webhook_runner.start().
LoadExcel ==
    /\ pc = "load"
    /\ LET loaded == load_excel_to_db(rows, excel)
       IN /\ rows' = loaded.rows
          /\ metadata' = set_metadata(set_metadata(metadata, "input_file", "input.xlsx"),
                                      "total_rows", str(loaded.row_count))
          /\ results' = put(results, "total_rows", loaded.row_count)
    /\ listener' = "running"
    /\ pc' = "lusha_begin"
    /\ UNCHANGED <<excel, settings, auxVars, tracking, batch_log, phaseVars, waitVars, sweeps, runs,
                   handlerVars>>

\* Phase 2, enrich_lusha up to the batch loop.
EnrichLushaBegin ==
    /\ pc = "lusha_begin"
    /\ LET p == get_rows_by_status(rows, "lusha", "pending")
       IN IF p = <<>>
          THEN /\ results' = put(results, "lusha", [processed |-> 0, success |-> 0])
               /\ pc' = "apollo_begin"
               /\ UNCHANGED <<pending, chunks, phaseCount>>
          ELSE /\ pending' = p
               /\ chunks' = chunked(p, settings.lusha_batch_size)
               /\ phaseCount' = 0
               /\ pc' = "lusha_batch"
               /\ UNCHANGED results
    /\ UNCHANGED <<excel, settings, auxVars, storeVars, resp, idx, batch_id, nextBatch, waitVars, sweeps,
                   runs, listener, handlerVars>>

\* Variant: no try/except in the loop, a failed batch ends the phase.
LushaBatch_abort ==
    /\ pc = "lusha_batch"
    /\ chunks # <<>>
    /\ \E outcome \in LushaOutcomes(Len(Head(chunks))) :
          LET batch == Head(chunks)
              done == lusha_enrich_and_save(rows, batch, outcome)
          IN /\ rows' = done.rows
             /\ batch_log' = update_batch_status(
                                log_batch(batch_log, "lusha", nextBatch, batch),
                                nextBatch, done.status, done.error)
             /\ phaseCount' = IF done.raised THEN phaseCount
                              ELSE phaseCount + done.count
             /\ chunks' = IF done.raised THEN <<>> ELSE Tail(chunks)
    /\ nextBatch' = nextBatch + 1
    /\ UNCHANGED <<excel, settings, auxVars, tracking, metadata, pc, pending, resp, idx, batch_id,
                   waitVars, results, sweeps, runs, listener, handlerVars>>

\* One iteration of the Lusha batch loop: client.enrich_and_save(batch, repo),
\* with the loop's try/except around it.
LushaBatch ==
    /\ pc = "lusha_batch"
    /\ chunks # <<>>
    /\ \E outcome \in LushaOutcomes(Len(Head(chunks))) :
          LET batch == Head(chunks)
              done == lusha_enrich_and_save(rows, batch, outcome)
          IN /\ rows' = done.rows
             /\ batch_log' = update_batch_status(
                                log_batch(batch_log, "lusha", nextBatch, batch),
                                nextBatch, done.status, done.error)
             /\ phaseCount' = IF done.raised THEN phaseCount
                              ELSE phaseCount + done.count
    /\ nextBatch' = nextBatch + 1
    /\ chunks' = Tail(chunks)
    /\ UNCHANGED <<excel, settings, auxVars, tracking, metadata, pc, pending, resp, idx, batch_id,
                   waitVars, results, sweeps, runs, listener, handlerVars>>

\* enrich_lusha returns.
EnrichLushaDone ==
    /\ pc = "lusha_batch"
    /\ chunks = <<>>
    /\ results' = put(results, "lusha",
                      [processed |-> Len(pending), success |-> phaseCount])
    /\ pending' = <<>>
    /\ phaseCount' = 0
    /\ pc' = "apollo_begin"
    /\ UNCHANGED <<excel, settings, auxVars, storeVars, chunks, resp, idx, batch_id, nextBatch, waitVars,
                   sweeps, runs, listener, handlerVars>>

\* Phase 3, enrich_apollo_sync up to the batch loop.
EnrichApolloBegin ==
    /\ pc = "apollo_begin"
    /\ LET p == get_rows_by_status(rows, "apollo", "pending")
       IN IF p = <<>>
          THEN /\ results' = put(results, "apollo_sync", [processed |-> 0, matched |-> 0])
               /\ pc' = "wait_begin"
               /\ UNCHANGED <<pending, chunks, phaseCount>>
          ELSE /\ pending' = p
               /\ chunks' = chunked(p, settings.apollo_batch_size)
               /\ phaseCount' = 0
               /\ pc' = "apollo_submit"
               /\ UNCHANGED results
    /\ UNCHANGED <<excel, settings, auxVars, storeVars, resp, idx, batch_id, nextBatch, waitVars, sweeps,
                   runs, listener, handlerVars>>

\* ApolloClient.enrich_and_save: log_batch and the request.  The request
\* either raised (except branch: batch and members marked error, re-raised,
\* logged by the batch loop) or returned the response to be saved.
ApolloSubmit ==
    /\ pc = "apollo_submit"
    /\ chunks # <<>>
    /\ LET batch == Head(chunks)
           logged == log_batch(batch_log, "apollo", nextBatch, batch)
       IN \/ /\ batch_log' = update_batch_status(logged, nextBatch, "error",
                                                 "request failed")
             /\ rows' = apollo_mark_batch_error(rows, batch, "request failed")
             /\ chunks' = Tail(chunks)
             /\ UNCHANGED <<pc, resp, idx, batch_id>>
          \/ /\ \E r \in ApolloResponses(Len(batch)) : resp' = r
             /\ batch_log' = logged
             /\ batch_id' = nextBatch
             /\ idx' = 1
             /\ pc' = "apollo_save"
             /\ UNCHANGED <<rows, chunks>>
    /\ nextBatch' = nextBatch + 1
    /\ UNCHANGED <<excel, settings, auxVars, tracking, metadata, pending, phaseCount, waitVars, results,
                   sweeps, runs, listener, handlerVars>>

\* _save_single_match / _save_bulk_matches, first write for person idx:
\* update_apollo_sync_result.
ApolloSaveStatus ==
    /\ pc = "apollo_save"
    /\ idx <= Len(Head(chunks))
    /\ LET row_id == Head(chunks)[idx]
           match == bulk_match_at(resp, idx)
       IN /\ rows' = apollo_save_status(rows, row_id, match)
          /\ IF no_match(match)
             THEN idx' = idx + 1 /\ pc' = "apollo_save"
             ELSE idx' = idx /\ pc' = "apollo_register"
    /\ UNCHANGED <<excel, settings, auxVars, tracking, batch_log, metadata, pending, chunks, resp,
                   batch_id, nextBatch, phaseCount, waitVars, results, sweeps, runs,
                   listener, handlerVars>>

\* Second write for a matched person: create_webhook_tracking.
ApolloRegister ==
    /\ pc = "apollo_register"
    /\ LET row_id == Head(chunks)[idx]
           match == bulk_match_at(resp, idx)
       IN tracking' = create_webhook_tracking(tracking, match.id, row_id, batch_id)
    /\ idx' = idx + 1
    /\ pc' = "apollo_save"
    /\ UNCHANGED <<excel, settings, auxVars, rows, batch_log, metadata, pending, chunks, resp, batch_id,
                   nextBatch, phaseCount, waitVars, results, sweeps, runs, listener,
                   handlerVars>>

\* Variant: enrich_and_save may return before the results of all members
\* are saved, and the loop goes on to the next batch.
ApolloBatchDone_early ==
    /\ pc = "apollo_save"
    /\ idx >= 1
    /\ batch_log' = update_batch_status(batch_log, batch_id, "complete", NULL)
    /\ phaseCount' = phaseCount + apollo_match_count(Head(chunks), resp)
    /\ chunks' = Tail(chunks)
    /\ resp' = <<>>
    /\ idx' = 1
    /\ batch_id' = 0
    /\ pc' = "apollo_submit"
    /\ UNCHANGED <<excel, settings, auxVars, rows, tracking, metadata, pending, nextBatch, waitVars,
                   results, sweeps, runs, listener, handlerVars>>

\* enrich_and_save returns: update_batch_status(complete), count added.
ApolloBatchDone ==
    /\ pc = "apollo_save"
    /\ idx > Len(Head(chunks))
    /\ batch_log' = update_batch_status(batch_log, batch_id, "complete", NULL)
    /\ phaseCount' = phaseCount + apollo_match_count(Head(chunks), resp)
    /\ chunks' = Tail(chunks)
    /\ resp' = <<>>
    /\ idx' = 1
    /\ batch_id' = 0
    /\ pc' = "apollo_submit"
    /\ UNCHANGED <<excel, settings, auxVars, rows, tracking, metadata, pending, nextBatch, waitVars,
                   results, sweeps, runs, listener, handlerVars>>

\* enrich_apollo_sync returns.
EnrichApolloDone ==
    /\ pc = "apollo_submit"
    /\ chunks = <<>>
    /\ results' = put(results, "apollo_sync",
                      [processed |-> Len(pending), matched |-> phaseCount])
    /\ pending' = <<>>
    /\ phaseCount' = 0
    /\ pc' = "wait_begin"
    /\ UNCHANGED <<excel, settings, auxVars, storeVars, chunks, resp, idx, batch_id, nextBatch, waitVars,
                   sweeps, runs, listener, handlerVars>>

\* Variant: the loop condition written with <=.
before_deadline_inclusive(t, d) == t <= d

\* The loop condition of wait_for_webhooks: time.time() < deadline.
before_deadline(t, d) == t < d

\* Phase 4, wait_for_webhooks: count_total_webhooks and the deadline.
\* The clock is read relative to this moment.
WaitBegin ==
    /\ pc = "wait_begin"
    /\ IF count_total_webhooks(tracking) = 0
       THEN /\ results' = put(results, "apollo_webhooks",
                              [expected |-> 0, received |-> 0, timed_out |-> 0])
            /\ pc' = "stop"
            /\ UNCHANGED <<total_expected, deadline>>
       ELSE /\ total_expected' = count_total_webhooks(tracking)
            /\ deadline' = now + WebhookTimeout
            /\ pc' = "wait_check"
            /\ UNCHANGED results
    /\ UNCHANGED <<excel, settings, auxVars, storeVars, phaseVars, now, sweeps, runs, listener,
                   handlerVars>>

\* while time.time() < deadline
WaitCheck ==
    /\ pc = "wait_check"
    /\ pc' = IF before_deadline(now, deadline) THEN "wait_poll" ELSE "wait_sweep"
    /\ UNCHANGED <<excel, settings, auxVars, storeVars, phaseVars, waitVars, results, sweeps, runs,
                   listener, handlerVars>>

\* Loop body: count_pending_webhooks, then the early return or the sleep.
WaitPoll ==
    /\ pc = "wait_poll"
    /\ IF count_pending_webhooks(tracking) = 0
       THEN /\ results' = put(results, "apollo_webhooks",
                              [expected |-> total_expected,
                               received |-> total_expected, timed_out |-> 0])
            /\ pc' = "stop"
            /\ total_expected' = 0 /\ deadline' = 0 /\ now' = 0
       ELSE /\ pc' = "wait_sleep"
            /\ UNCHANGED <<results, waitVars>>
    /\ UNCHANGED <<excel, settings, auxVars, storeVars, phaseVars, sweeps, runs, listener, handlerVars>>

\* await asyncio.sleep(poll_interval) returns: at least poll_interval later.
\* Only wait_for_webhooks reads the clock, and its other steps take no time;
\* MaxTime caps how much longer than asked a sleep may last.
WaitWake ==
    /\ pc = "wait_sleep"
    /\ \E t \in (now + PollInterval)..Max(now + PollInterval, MaxTime) : now' = t
    /\ pc' = "wait_check"
    /\ UNCHANGED <<excel, settings, auxVars, storeVars, phaseVars, total_expected, deadline, results,
                   sweeps, runs, listener, handlerVars>>

\* Timeout reached: mark_webhook_timeouts and the return value.
WaitSweep ==
    /\ pc = "wait_sweep"
    /\ rows' = mark_webhook_timeouts(rows)
    /\ LET timed_out == mark_webhook_timeouts_rowcount(rows)
       IN results' = put(results, "apollo_webhooks",
                         [expected |-> total_expected,
                          received |-> total_expected - timed_out,
                          timed_out |-> timed_out])
    /\ sweeps' = sweeps + 1
    /\ pc' = "stop"
    /\ total_expected' = 0 /\ deadline' = 0 /\ now' = 0
    /\ UNCHANGED <<excel, settings, auxVars, tracking, batch_log, metadata, phaseVars, runs, listener,
                   handlerVars>>

\* finally: webhook_runner.stop() sets should_exit on the server.
StopListener ==
    /\ pc = "stop"
    /\ listener' = "exiting"
    /\ pc' = "export"
    /\ UNCHANGED <<excel, settings, auxVars, storeVars, phaseVars, waitVars, results, sweeps, runs,
                   handlerVars>>

\* The repository calls of phases 2-4 that no try/except of the phase
\* encloses: get_rows_by_status, count_total_webhooks, count_pending_webhooks
\* and mark_webhook_timeouts.
RaisePoints == {"lusha_begin", "apollo_begin", "wait_begin", "wait_poll", "wait_sweep"}

\* Such a call raises: the exception leaves the phase and the try block of
\* run_full_pipeline, whose finally calls webhook_runner.stop(); the export
\* and the summary are not reached.
PipelineRaise ==
    /\ pc \in RaisePoints
    /\ listener' = "exiting"
    /\ pc' = "raised"
    /\ UNCHANGED <<excel, settings, auxVars, storeVars, phaseVars, waitVars, results, sweeps, runs,
                   handlerVars>>

\* Phase 5, export_excel.
ExportExcel ==
    /\ pc = "export"
    /\ results' = put(results, "output_file", "output.xlsx")
    /\ pc' = "summary"
    /\ UNCHANGED <<excel, settings, auxVars, storeVars, phaseVars, waitVars, sweeps, runs, listener,
                   handlerVars>>

\* results["summary"] = get_status_summary(); run_full_pipeline returns.
Summary ==
    /\ pc = "summary"
    /\ results' = put(results, "summary", get_status_summary(rows))
    /\ pc' = "done"
    /\ UNCHANGED <<excel, settings, auxVars, storeVars, phaseVars, waitVars, sweeps, runs, listener,
                   handlerVars>>

\* The command is run again with the same sheet on the same database file: a
\* new process, whose predecessor's listener thread ended with it.
Restart ==
    /\ pc = "done"
    /\ runs < MaxRuns
    /\ runs' = runs + 1
    /\ excel' = excel
    /\ settings' = settings
    /\ UNCHANGED auxVars
    /\ pc' = "load"
    /\ results' = <<>>
    /\ sweeps' = 0
    /\ listener' = "off"
    /\ hPc' = "idle"
    /\ hPeople' = <<>>
    /\ hIdx' = 1
    /\ hRowId' = NoneRow
    /\ processed' = 0
    /\ UNCHANGED <<storeVars, phaseVars, waitVars, callbacksLeft>>

\* ------------------------------------------------- listener actions
\* POST /webhook/apollo: the body validated as ApolloWebhookPayload.
Deliver ==
    /\ listener \in {"running", "exiting"}
    /\ hPc = "idle"
    /\ callbacksLeft > 0
    /\ \E people \in SeqsUpTo(WebhookPeople, MaxPeople) : hPeople' = people
    /\ hIdx' = 1
    /\ processed' = 0
    /\ hPc' = "loop"
    /\ callbacksLeft' = callbacksLeft - 1
    /\ UNCHANGED <<excel, settings, auxVars, storeVars, orchVars, listener, hRowId>>

\* Variant: an entry that cannot be correlated ends the loop (break for
\* continue).
HandleMark_break ==
    /\ hPc = "loop"
    /\ hIdx <= Len(hPeople)
    /\ LET person == hPeople[hIdx]
           row_id == get_row_id_by_apollo_person_id(tracking, person.id)
       IN IF ~truthy(person.id)
          THEN /\ hIdx' = Len(hPeople) + 1
               /\ UNCHANGED <<tracking, hRowId, hPc>>
          ELSE /\ tracking' = mark_webhook_received(tracking, person.id, Stamp,
                                                    json_dumps(person))
               /\ IF row_id = NoneRow
                  THEN /\ hIdx' = Len(hPeople) + 1
                       /\ UNCHANGED <<hRowId, hPc>>
                  ELSE /\ hRowId' = row_id
                       /\ hPc' = "update"
                       /\ UNCHANGED hIdx
    /\ UNCHANGED <<excel, settings, auxVars, rows, batch_log, metadata, orchVars, listener, hPeople,
                   processed, callbacksLeft>>

\* handle_apollo_webhook, one person entry: the id test and
\* mark_webhook_received.
HandleMark ==
    /\ hPc = "loop"
    /\ hIdx <= Len(hPeople)
    /\ LET person == hPeople[hIdx]
           row_id == get_row_id_by_apollo_person_id(tracking, person.id)
       IN IF ~truthy(person.id)
          THEN /\ hIdx' = hIdx + 1
               /\ UNCHANGED <<tracking, hRowId, hPc>>
          ELSE /\ tracking' = mark_webhook_received(tracking, person.id, Stamp,
                                                    json_dumps(person))
               /\ IF row_id = NoneRow
                  THEN /\ hIdx' = hIdx + 1
                       /\ UNCHANGED <<hRowId, hPc>>
                  ELSE /\ hRowId' = row_id
                       /\ hPc' = "update"
                       /\ UNCHANGED hIdx
    /\ UNCHANGED <<excel, settings, auxVars, rows, batch_log, metadata, orchVars, listener, hPeople,
                   processed, callbacksLeft>>

\* handle_apollo_webhook, same entry: classify_apollo_phones and
\* update_apollo_phone_result.
HandleUpdate ==
    /\ hPc = "update"
    /\ LET phones == classify_apollo_phones(hPeople[hIdx].phone_numbers)
       IN rows' = update_apollo_phone_result(rows, hRowId, phones.mobile,
                                             phones.direct_dial)
    /\ processed' = processed + 1
    /\ hIdx' = hIdx + 1
    /\ hRowId' = NoneRow
    /\ hPc' = "loop"
    /\ UNCHANGED <<excel, settings, auxVars, tracking, batch_log, metadata, orchVars, listener, hPeople,
                   callbacksLeft>>

\* handle_apollo_webhook returns `processed`; the endpoint answers.
HandleReturn ==
    /\ hPc = "loop"
    /\ hIdx > Len(hPeople)
    /\ hPeople' = <<>>
    /\ hIdx' = 1
    /\ processed' = 0
    /\ hPc' = "idle"
    /\ UNCHANGED <<excel, settings, auxVars, storeVars, orchVars, listener, hRowId, callbacksLeft>>

\* The server thread ends once should_exit is set and no request is in flight.
ListenerExit ==
    /\ listener = "exiting"
    /\ hPc = "idle"
    /\ listener' = "off"
    /\ UNCHANGED <<excel, settings, auxVars, storeVars, orchVars, handlerVars>>

Next ==
    \/ LoadExcel
    \/ EnrichLushaBegin
    \/ LushaBatch
    \/ EnrichLushaDone
    \/ EnrichApolloBegin
    \/ ApolloSubmit
    \/ ApolloSaveStatus
    \/ ApolloRegister
    \/ ApolloBatchDone
    \/ EnrichApolloDone
    \/ WaitBegin
    \/ WaitCheck
    \/ WaitPoll
    \/ WaitWake
    \/ WaitSweep
    \/ StopListener
    \/ ExportExcel
    \/ Summary
    \/ Deliver
    \/ HandleMark
    \/ HandleUpdate
    \/ HandleReturn
    \/ ListenerExit

Spec == Init /\ [][Next]_vars

\* Runs repeated on the same database, with one callback in all.
InitRerun == InitWith(1)

NextRerun == Next \/ Restart

SpecRerun == InitRerun /\ [][NextRerun]_vars

\* Any batch sizes up to the largest, so that a phase has several batches;
\* one callback in all.
InitBatches ==
    InitFor(1, [lusha_batch_size : 1..LushaBatchSize,
                apollo_batch_size : 1..ApolloBatchSize])

SpecBatches == InitBatches /\ [][Next]_vars

\* Runs repeated on the same database with any batch sizes.
SpecRerunBatches == InitBatches /\ [][NextRerun]_vars

\* A rate limiter of any burst up to the rate, used by several coroutines;
\* no pipeline run.
InitLimiter ==
    /\ PipelineInit(0, {[lusha_batch_size |-> LushaBatchSize,
                         apollo_batch_size |-> ApolloBatchSize]})
    /\ excel = <<>>
    /\ LimiterInit(1..Rate)
    /\ RetryInit({MaxAttempts})
    /\ RunInit
    /\ PhoneIdle
    /\ StatusIdle
    /\ CallIdle

NextLimiter ==
    \/ \E c \in Callers : AcquireCall(c)
    \/ \E c \in Callers : AcquireEnter(c)
    \/ \E c \in Callers : AcquireWake(c)
    \/ ClockTick

SpecLimiter == InitLimiter /\ [][NextLimiter]_vars

\* One call through with_retry, for every budget up to MaxAttempts; no
\* pipeline run.
InitRetry ==
    /\ PipelineInit(0, {[lusha_batch_size |-> LushaBatchSize,
                         apollo_batch_size |-> ApolloBatchSize]})
    /\ excel = <<>>
    /\ LimiterInit({Rate})
    /\ RetryInit(0..MaxAttempts)
    /\ RunInit
    /\ PhoneIdle
    /\ StatusIdle
    /\ CallIdle

NextRetry ==
    \/ RetryBegin
    \/ RetryCallReturns
    \/ RetryCallStatusError
    \/ RetryCallOtherError
    \/ RetryWake

SpecRetry == InitRetry /\ [][NextRetry]_vars

\* One call of a client method, with the client's limiter and the retry
\* budget of the decorator; no pipeline run.
InitClient ==
    /\ PipelineInit(0, {[lusha_batch_size |-> LushaBatchSize,
                         apollo_batch_size |-> ApolloBatchSize]})
    /\ excel = <<>>
    /\ AuxInit

NextClient ==
    \/ RetryBegin
    \/ RequestEnter
    \/ RequestAcquire
    \/ RequestSend
    \/ RetryWake
    \/ ClockTick

SpecClient == InitClient /\ [][NextClient]_vars

\* The runs of the HTTP API: uploads arrive and the background tasks of the
\* runs interleave on the event loop.
InitRun ==
    /\ PipelineInit(0, {[lusha_batch_size |-> LushaBatchSize,
                         apollo_batch_size |-> ApolloBatchSize]})
    /\ excel = <<>>
    /\ AuxInit

NextRun ==
    \/ \E id \in RunIds : StartEnrichment(id)
    \/ \E id \in RunIds : RunBegin(id)
    \/ \E id \in RunIds : RunLoad(id)
    \/ \E id \in RunIds : RunLusha(id)
    \/ \E id \in RunIds : RunApollo(id)
    \/ \E id \in RunIds : RunWait(id)
    \/ \E id \in RunIds : RunExport(id)
    \/ ApiReceiveWebhook
    \/ CliReceiveWebhook

SpecRun == InitRun /\ [][NextRun]_vars

\* One classification of a list of phone entries; no pipeline run.
InitPhones ==
    /\ PipelineInit(0, {[lusha_batch_size |-> LushaBatchSize,
                         apollo_batch_size |-> ApolloBatchSize]})
    /\ excel = <<>>
    /\ LimiterInit({Rate})
    /\ RetryInit({MaxAttempts})
    /\ RunInit
    /\ PhoneInit
    /\ StatusIdle
    /\ CallIdle

NextPhones == ClassifyApollo \/ ClassifyLusha

SpecPhones == InitPhones /\ [][NextPhones]_vars

\* One repository call on a database of up to MaxStored records; two
\* records completed by callbacks have different person identifiers.
InitRepo ==
    \E rs \in SeqsUpTo(StoredRecords, MaxStored) :
       /\ \A a, b \in DOMAIN rs :
             (a # b /\ rs[a].apollo_status = "complete")
             => rs[a].apollo_person_id # rs[b].apollo_person_id
       /\ StoredInit(rs, {[lusha_batch_size |-> LushaBatchSize,
                           apollo_batch_size |-> ApolloBatchSize]})
       /\ AuxInit

NextRepo ==
    \/ MarkWebhookTimeoutsCall
    \/ UpdateLushaResultCall
    \/ UpdateApolloSyncResultCall
    \/ UpdateApolloPhoneResultCall

SpecRepo == InitRepo /\ [][NextRepo]_vars

\* The chunking of a provider phase on a database of up to MaxChunkRows
\* records that no callback is expected for, with batch sizes up to
\* MaxChunkSize.
InitChunks ==
    \E rs \in SeqsUpTo({r \in StoredRecords : r.apollo_person_id = NULL},
                       MaxChunkRows) :
       /\ StoredInit(rs, [lusha_batch_size : 1..MaxChunkSize,
                          apollo_batch_size : 1..MaxChunkSize])
       /\ AuxInit

NextChunks == ChunkedCall

SpecChunks == InitChunks /\ [][NextChunks]_vars

\* A run with one callback and one status command issued while the run
\* waits for callbacks or later.
InitStatus == InitWith(1)

NextStatus ==
    \/ Next
    \/ StatusBegin
    \/ StatusCount
    \/ StatusReturn

SpecStatus == InitStatus /\ [][NextStatus]_vars

\* The process is either the command line run, whose phases 2-4 may raise,
\* with one callback in all, or the API server with its runs.
InitCleanup == InitWith(1)

RunsIdle == api_runs = [id \in RunIds |-> NoRun] /\ webhook_response = NoResponse

PipelineIdle == pc = "load"

NextCleanup ==
    \/ RunsIdle /\ LoadExcel
    \/ RunsIdle /\ EnrichLushaBegin
    \/ RunsIdle /\ LushaBatch
    \/ RunsIdle /\ EnrichLushaDone
    \/ RunsIdle /\ EnrichApolloBegin
    \/ RunsIdle /\ ApolloSubmit
    \/ RunsIdle /\ ApolloSaveStatus
    \/ RunsIdle /\ ApolloRegister
    \/ RunsIdle /\ ApolloBatchDone
    \/ RunsIdle /\ EnrichApolloDone
    \/ RunsIdle /\ WaitBegin
    \/ RunsIdle /\ WaitCheck
    \/ RunsIdle /\ WaitPoll
    \/ RunsIdle /\ WaitWake
    \/ RunsIdle /\ WaitSweep
    \/ RunsIdle /\ StopListener
    \/ RunsIdle /\ ExportExcel
    \/ RunsIdle /\ Summary
    \/ RunsIdle /\ Deliver
    \/ RunsIdle /\ HandleMark
    \/ RunsIdle /\ HandleUpdate
    \/ RunsIdle /\ HandleReturn
    \/ RunsIdle /\ ListenerExit
    \/ RunsIdle /\ PipelineRaise
    \/ PipelineIdle /\ \E id \in RunIds : StartEnrichment(id)
    \/ PipelineIdle /\ \E id \in RunIds : RunBegin(id)
    \/ PipelineIdle /\ \E id \in RunIds : RunLoad(id)
    \/ PipelineIdle /\ \E id \in RunIds : RunLusha(id)
    \/ PipelineIdle /\ \E id \in RunIds : RunApollo(id)
    \/ PipelineIdle /\ \E id \in RunIds : RunWait(id)
    \/ PipelineIdle /\ \E id \in RunIds : RunExport(id)
    \/ PipelineIdle /\ ApiReceiveWebhook
    \/ PipelineIdle /\ CliReceiveWebhook

SpecCleanup == InitCleanup /\ [][NextCleanup]_vars

\* The event loop runs every task that is ready, and every service call of
\* a task returns or raises; uploads arrive or not.
FairSpecRun == SpecRun /\ \A id \in RunIds : WF_vars(RunTask(id))

\* The orchestrator coroutine keeps running: it is never starved, and
\* asyncio.sleep returns.
FairSpec ==
    /\ Spec
    /\ WF_vars(WaitBegin) /\ WF_vars(WaitCheck) /\ WF_vars(WaitPoll)
    /\ WF_vars(WaitWake) /\ WF_vars(WaitSweep)

\* ------------------------------------------------- properties
TerminalStatus == {"complete", "error", "timeout"}

Registered(tr, id) == \E k \in 1..Len(tr) : tr[k].apollo_person_id = id

\* Index of the correlation of a registered identifier.
CorrelationOf(tr, id) == CHOOSE k \in 1..Len(tr) : tr[k].apollo_person_id = id

AwaitingRows(rs) == {r \in DOMAIN rs : rs[r].apollo_status = "awaiting_webhook"}

TimeoutRows(rs) == {r \in DOMAIN rs : rs[r].apollo_status = "timeout"}

Unreceived(tr) == {k \in 1..Len(tr) : tr[k].received_at = NULL}

\* No callback has been delivered so far.
NoCallbackYet == callbacksLeft = MaxCallbacks

\* The orchestrator takes this step.
OrchestratorStep == pc' # pc \/ idx' # idx \/ chunks' # chunks \/ now' # now

\* The listener thread takes this step of handle_apollo_webhook.
HandlerStep == hPc' # hPc \/ hIdx' # hIdx

\* The phone numbers the two callback phone lists carry, read off the lists.
ExpectedPhones(phone_numbers) ==
    IF phone_numbers = PhoneListA
    THEN [mobile |-> "+1555", direct_dial |-> NULL]
    ELSE [mobile |-> NULL, direct_dial |-> "030"]

\* C1: a callback for a registered identifier handled after the bulk timeout
\* transition still finds the correlation and gets the owning row_id, and the
\* record's apollo_status stays `timeout`.
C1_TimeoutNotMutatedByLateCallback ==
    [][/\ (/\ hPc = "loop" /\ HandlerStep /\ hIdx <= Len(hPeople)
           /\ truthy(hPeople[hIdx].id) /\ Registered(tracking, hPeople[hIdx].id)
           /\ tracking[CorrelationOf(tracking, hPeople[hIdx].id)].row_id
                 \in TimeoutRows(rows))
          => hRowId' = tracking[CorrelationOf(tracking, hPeople[hIdx].id)].row_id
       /\ (hPc = "update" /\ HandlerStep /\ hRowId \in TimeoutRows(rows))
          => rows'[hRowId].apollo_status = "timeout"]_vars

\* C2: once lusha_status or apollo_status of a record is complete, error or
\* timeout, no step (load, provider phase, callback, sweep) makes it pending.
C2_TerminalNeverPending ==
    [][\A r \in DOMAIN rows :
          /\ r \in DOMAIN rows'
          /\ rows[r].lusha_status \in TerminalStatus
                => rows'[r].lusha_status # "pending"
          /\ rows[r].apollo_status \in TerminalStatus
                => rows'[r].apollo_status # "pending"]_vars

\* A second run has loaded the sheet over records with terminal statuses.
C2_Witness ==
    /\ runs = 2
    /\ pc = "lusha_begin"
    /\ \E r \in DOMAIN rows :
          /\ rows[r].apollo_status = "timeout"
          /\ rows[r].lusha_status = "complete"

\* C3: with N records awaiting a callback and no callback arriving, the wait
\* does not return before the timeout has elapsed; the sweep then moves all N
\* records to timeout and reports timed_out = N, and the status summary shows
\* timeout = N and awaiting_webhook = 0.
C3_TimeoutScenario ==
    /\ [][/\ (pc = "wait_poll" /\ OrchestratorStep /\ NoCallbackYet)
             => pc' = "wait_sleep"
          /\ (pc = "wait_sweep" /\ OrchestratorStep)
             => LET N == Cardinality(AwaitingRows(rows))
                IN /\ now >= WebhookTimeout
                   /\ \A r \in AwaitingRows(rows) : rows'[r].apollo_status = "timeout"
                   /\ results'.apollo_webhooks.timed_out = N
                   /\ NoCallbackYet =>
                         /\ N >= Len(tracking)
                         /\ get_status_summary(rows').apollo.timeout = N
                         /\ get_status_summary(rows').apollo.awaiting_webhook = 0]_vars
    /\ [](pc = "done" /\ NoCallbackYet /\ tracking # <<>>
            => /\ sweeps = 1
               /\ results.summary.apollo.timeout = results.apollo_webhooks.timed_out
               /\ results.summary.apollo.awaiting_webhook = 0)

\* Two records registered, no callback, both timed out and summarised.
C3_Witness ==
    /\ pc = "done"
    /\ NoCallbackYet
    /\ Len(tracking) = 2
    /\ TimeoutRows(rows) = {1, 2}
    /\ results.apollo_webhooks.timed_out = 2
    /\ results.summary.apollo.timeout = 2
    /\ results.summary.apollo.awaiting_webhook = 0

\* C4: wait_for_webhooks always returns; a loop test made at or after the
\* deadline (start + webhook_timeout_seconds) ends the loop, so no poll
\* happens at or after it; and on that path mark_webhook_timeouts runs
\* exactly once.
C4_WaitTerminates ==
    /\ (pc = "wait_begin") ~> (pc = "stop")
    /\ [](pc \in {"wait_check", "wait_poll", "wait_sleep", "wait_sweep"}
            => deadline = WebhookTimeout)
    /\ [](pc \in {"wait_poll", "wait_sleep"} => now < deadline)
    /\ [](sweeps <= 1)
    /\ [][/\ (pc = "wait_check" /\ OrchestratorStep /\ now >= deadline)
             => pc' = "wait_sweep"
          /\ (pc = "wait_sweep" /\ OrchestratorStep)
             => pc' = "stop" /\ sweeps = 0 /\ sweeps' = 1
          /\ (pc # "wait_sweep") => sweeps' = sweeps]_vars

\* The wait has returned through the deadline path although a callback was
\* received during it.
C4_Witness ==
    /\ pc = "stop"
    /\ sweeps = 1
    /\ results.apollo_webhooks.expected = 2
    /\ results.apollo_webhooks.received = 1
    /\ results.apollo_webhooks.timed_out = 1

\* C5: a poll that finds every correlation received returns at once with
\* received = expected and timed_out = 0 and without the sweep; with no
\* correlation registered the wait returns immediately with expected = 0.
C5_EarlyExit ==
    [][/\ (pc = "wait_poll" /\ OrchestratorStep /\ Unreceived(tracking) = {})
          => /\ pc' = "stop"
             /\ results'.apollo_webhooks =
                   [expected |-> total_expected, received |-> total_expected,
                    timed_out |-> 0]
             /\ total_expected = Len(tracking)
             /\ now < deadline
             /\ sweeps = 0 /\ sweeps' = 0
             /\ rows' = rows
       /\ (pc = "wait_poll" /\ OrchestratorStep /\ Unreceived(tracking) # {})
          => pc' = "wait_sleep"
       /\ (pc = "wait_begin" /\ OrchestratorStep /\ tracking = <<>>)
          => /\ pc' = "stop"
             /\ results'.apollo_webhooks =
                   [expected |-> 0, received |-> 0, timed_out |-> 0]
             /\ now' = now
             /\ sweeps' = 0
             /\ rows' = rows]_vars

\* Both correlations were received and the wait returned early.
C5_Witness ==
    /\ pc = "stop"
    /\ sweeps = 0
    /\ Len(tracking) = 2
    /\ results.apollo_webhooks = [expected |-> 2, received |-> 2, timed_out |-> 0]

\* C6: in every state the Apollo counts of get_status_summary add up to
\* total_rows, each count is the number of records in that status, and
\* total_rows is the number of records.
C6_SumInvariant ==
    LET s == get_status_summary(rows)
        n(status) == Cardinality({r \in DOMAIN rows : rows[r].apollo_status = status})
    IN /\ s.apollo.pending + s.apollo.complete + s.apollo.error
            + s.apollo.awaiting_webhook + s.apollo.timeout = s.total_rows
       /\ s.total_rows = Cardinality(DOMAIN rows)
       /\ s.apollo.pending = n("pending")
       /\ s.apollo.complete = n("complete")
       /\ s.apollo.error = n("error")
       /\ s.apollo.awaiting_webhook = n("awaiting_webhook")
       /\ s.apollo.timeout = n("timeout")

\* After the sweep: one record complete, one timed out.
C6_Witness ==
    /\ sweeps = 1
    /\ get_status_summary(rows).apollo.timeout = 1
    /\ get_status_summary(rows).apollo.complete = 1
    /\ get_status_summary(rows).total_rows = 2

\* C7: webhook_tracking never holds two rows for one identifier, and
\* registering an identifier that is already registered leaves the table as
\* it was: same row_id, batch_id, received_at.
C7_CorrelationUnique ==
    /\ [](\A j, k \in 1..Len(tracking) :
             tracking[j].apollo_person_id = tracking[k].apollo_person_id => j = k)
    /\ [][(pc = "apollo_register" /\ OrchestratorStep
           /\ Registered(tracking, resp[idx].id))
          => LET k == CorrelationOf(tracking, resp[idx].id)
             IN /\ Len(tracking') = Len(tracking)
                /\ tracking'[k].row_id = tracking[k].row_id
                /\ tracking'[k].batch_id = tracking[k].batch_id
                /\ tracking'[k].received_at = tracking[k].received_at
                /\ tracking' = tracking]_vars

\* Two records matched the same person; the second registration found the
\* first one, already received, and left it alone.
C7_Witness ==
    /\ pc = "apollo_save"
    /\ idx = 3
    /\ resp = <<[none |-> FALSE, id |-> "p1", email |-> "a@acme"],
                [none |-> FALSE, id |-> "p1", email |-> "a@acme"]>>
    /\ Len(tracking) = 1
    /\ tracking[1].row_id = 1
    /\ tracking[1].received_at # NULL
    /\ rows[2].apollo_person_id = "p1"

\* C8: in the Apollo synchronous phase a record whose response entry is a
\* match with a non-empty identifier is written awaiting_webhook with the
\* email and the identifier, and a correlation for the identifier is then
\* registered; a record with no match or no identifier is written error and
\* no correlation is registered for it.
C8_ApolloSyncPerRecord ==
    [][/\ (pc = "apollo_save" /\ OrchestratorStep /\ idx <= Len(Head(chunks)))
          => LET r == Head(chunks)[idx]
                 matched == /\ idx <= Len(resp)
                            /\ ~resp[idx].none
                            /\ resp[idx].id \notin {NULL, ""}
             IN IF matched
                THEN /\ rows'[r].apollo_status = "awaiting_webhook"
                     /\ rows'[r].apollo_email = resp[idx].email
                     /\ rows'[r].apollo_person_id = resp[idx].id
                     /\ rows'[r].apollo_error = NULL
                     /\ pc' = "apollo_register" /\ idx' = idx
                ELSE /\ rows'[r].apollo_status = "error"
                     /\ rows'[r].apollo_person_id = NULL
                     /\ tracking' = tracking
                     /\ \A k \in 1..Len(tracking') : tracking'[k].row_id # r
                     /\ pc' = "apollo_save" /\ idx' = idx + 1
       /\ (pc = "apollo_register" /\ OrchestratorStep)
          => /\ Registered(tracking', resp[idx].id)
             /\ rows[Head(chunks)[idx]].apollo_person_id = resp[idx].id
             /\ idx' = idx + 1]_vars

\* A batch of two saved: the first record matched and registered, the second
\* came back with an empty identifier.
C8_Witness ==
    /\ pc = "apollo_save"
    /\ idx = 3
    /\ resp = <<[none |-> FALSE, id |-> "p2", email |-> NULL],
                [none |-> FALSE, id |-> "", email |-> "a@acme"]>>
    /\ rows[1].apollo_status = "awaiting_webhook"
    /\ rows[1].apollo_person_id = "p2"
    /\ rows[2].apollo_status = "error"
    /\ Len(tracking) = 1
    /\ tracking[1].row_id = 1

\* C9: a callback entry whose identifier is not registered changes no record
\* and no correlation, creates none, is not counted, and the handler goes on
\* to the next entry.
C9_UnknownIdDropped ==
    [][(/\ hPc = "loop" /\ HandlerStep /\ hIdx <= Len(hPeople)
        /\ truthy(hPeople[hIdx].id)
        /\ ~Registered(tracking, hPeople[hIdx].id))
       => /\ rows' = rows
          /\ tracking' = tracking
          /\ processed' = processed
          /\ hRowId' = NoneRow
          /\ hPc' = "loop"
          /\ hIdx' = hIdx + 1]_vars

\* The handler has passed an entry for p2 while only p1 is registered.
C9_Witness ==
    /\ hPc = "loop"
    /\ hIdx = 2
    /\ hPeople[1].id = "p2"
    /\ processed = 0
    /\ Len(tracking) = 1
    /\ tracking[1].apollo_person_id = "p1"
    /\ tracking[1].received_at = NULL

\* C10: a callback entry for a registered identifier stamps the correlation
\* and stores its payload, and the owning record becomes complete with the
\* mobile and direct number of the entry; when the correlation was already
\* received, the lookup still returns the owner, the payload is replaced, the
\* record stays complete and the number of unreceived correlations is
\* unchanged.
C10_RegisteredCallback ==
    [][/\ (/\ hPc = "loop" /\ HandlerStep /\ hIdx <= Len(hPeople)
           /\ truthy(hPeople[hIdx].id)
           /\ Registered(tracking, hPeople[hIdx].id))
          => LET k == CorrelationOf(tracking, hPeople[hIdx].id)
             IN /\ hPc' = "update"
                /\ hRowId' = tracking[k].row_id
                /\ hRowId' \in DOMAIN rows
                /\ tracking'[k].received_at # NULL
                /\ tracking'[k].payload = <<hPeople[hIdx]>>
                /\ \A j \in 1..Len(tracking) : j # k => tracking'[j] = tracking[j]
                /\ Len(tracking') = Len(tracking)
                /\ rows' = rows
                /\ tracking[k].received_at # NULL
                      => Unreceived(tracking') = Unreceived(tracking)
       /\ (hPc = "update" /\ HandlerStep)
          => LET phones == ExpectedPhones(hPeople[hIdx].phone_numbers)
             IN /\ rows'[hRowId].apollo_status = "complete"
                /\ rows'[hRowId].apollo_mobile = phones.mobile
                /\ rows'[hRowId].apollo_direct = phones.direct_dial
                /\ \A r \in DOMAIN rows : r # hRowId => rows'[r] = rows[r]
                /\ processed' = processed + 1
                /\ tracking' = tracking]_vars

\* One callback carried p1 twice: the second entry replaced the payload and
\* the phone numbers, and the record is still complete.
C10_Witness ==
    /\ hPc = "loop"
    /\ hIdx = 3
    /\ processed = 2
    /\ hPeople = <<[id |-> "p1", phone_numbers |-> PhoneListA],
                   [id |-> "p1", phone_numbers |-> PhoneListB]>>
    /\ Registered(tracking, "p1")
    /\ tracking[CorrelationOf(tracking, "p1")].payload =
          <<[id |-> "p1", phone_numbers |-> PhoneListB]>>
    /\ LET r == tracking[CorrelationOf(tracking, "p1")].row_id
       IN /\ rows[r].apollo_status = "complete"
          /\ rows[r].apollo_mobile = NULL
          /\ rows[r].apollo_direct = "030"

\* Entries of the payload among the first n that carry an identifier
\* registered in tr.
Correlatable(people, n, tr) ==
    {j \in 1..n : truthy(people[j].id) /\ Registered(tr, people[j].id)}

LoggedRows(bl, api) ==
    UNION {{bl[k].row_ids[j] : j \in 1..Len(bl[k].row_ids)} :
             k \in {i \in 1..Len(bl) : bl[i].api = api}}

\* The batch loop submits a batch in this step.
BatchStep(phase) == pc = phase /\ Len(batch_log') = Len(batch_log) + 1

C13_BatchOutcomeLogged ==
    /\ [](\A k \in 1..Len(batch_log) :
            batch_log[k].status = "submitted"
            => /\ pc \in {"apollo_save", "apollo_register"}
               /\ batch_log[k].batch_id = batch_id
               /\ batch_log[k].api = "apollo")
    /\ [][/\ BatchStep("lusha_batch")
             => LET entry == batch_log'[Len(batch_log')]
                IN /\ entry.status \in {"error", "complete"}
                   /\ entry.status = "error"
                         => /\ entry.error # NULL
                            /\ \A j \in 1..Len(entry.row_ids) :
                                  /\ rows'[entry.row_ids[j]].lusha_status = "error"
                                  /\ rows'[entry.row_ids[j]].lusha_error = entry.error
                            /\ phaseCount' = phaseCount
                   /\ entry.status = "complete" => entry.error = NULL
          /\ BatchStep("apollo_submit")
             => LET entry == batch_log'[Len(batch_log')]
                IN /\ entry.status \in {"error", "submitted"}
                   /\ entry.status = "error"
                         => /\ entry.error # NULL
                            /\ \A j \in 1..Len(entry.row_ids) :
                                  /\ rows'[entry.row_ids[j]].apollo_status = "error"
                                  /\ rows'[entry.row_ids[j]].apollo_error = entry.error
                            /\ phaseCount' = phaseCount
                   /\ entry.status = "submitted" => pc' = "apollo_save"
          /\ (pc = "apollo_save" /\ pc' = "apollo_submit")
             => \E k \in 1..Len(batch_log) :
                   /\ batch_log[k].batch_id = batch_id
                   /\ batch_log[k].status = "submitted"
                   /\ batch_log'[k].status = "complete"]_vars

\* A Lusha batch of two failed while its results were saved: both members
\* carry the failure text of the batch log entry.
C13_Witness ==
    /\ Len(batch_log) >= 1
    /\ batch_log[1].api = "lusha"
    /\ batch_log[1].status = "error"
    /\ batch_log[1].error = "AttributeError"
    /\ batch_log[1].row_ids = <<1, 2>>
    /\ rows[1].lusha_status = "error" /\ rows[1].lusha_error = "AttributeError"
    /\ rows[2].lusha_status = "error" /\ rows[2].lusha_error = "AttributeError"

\* ------------------------------------------------- rate limiter claims
\* The balance a caller would find after the refill, times Per.
Available == Min(burst * Per, tokens + (clock - last_refill) * Rate)

\* A call of acquire() returns in this step.
Granted == completed' = completed + 1

\* C14: the number of acquisitions completed by time T since construction
\* never exceeds burst + rate*T/per.
C14_RateBounded == completed * Per <= burst * Per + Rate * clock

\* C15: from a full bucket with burst = rate and no time elapsing, the first
\* `rate` acquisitions return without waiting, and the next one sleeps and
\* returns no earlier than per/rate later.
C15_BurstThenWait ==
    /\ []((burst = Rate /\ clock = 0)
            => /\ completed <= Rate
               /\ tokens = (Rate - completed) * Per
               /\ \A c \in Callers : aPc[c] = "sleep" => completed = Rate)
    /\ [][\A c \in Callers :
            /\ (burst = Rate /\ clock = 0 /\ aPc[c] = "lock" /\ aPc'[c] # "lock")
               => IF completed < Rate
                  THEN aPc'[c] = "idle" /\ Granted
                  ELSE /\ aPc'[c] = "sleep"
                       /\ ~Granted
                       /\ wake_at' * Rate >= Per
            /\ (burst = Rate /\ last_refill = 0 /\ completed = Rate
                  /\ aPc[c] = "sleep" /\ Granted)
               => clock * Rate >= Per]_vars

\* The (rate+1)th acquisition has returned, exactly per/rate after the burst.
C15_Witness ==
    /\ burst = Rate
    /\ last_refill = 0
    /\ completed = Rate + 1
    /\ clock = TicksPerToken

\* C16: at most one caller is inside the refill+consume step (the sleep
\* included), the balance stays within [0, burst], and every grant takes one
\* token out of the balance available at that instant, so that no token is
\* granted twice.
C16_Serialized ==
    /\ [](/\ \A c, d \in Callers : (aPc[c] = "sleep" /\ aPc[d] = "sleep") => c = d
          /\ \A c \in Callers : aPc[c] = "sleep" <=> lock = c
          /\ tokens >= 0
          /\ tokens <= burst * Per)
    /\ [][Granted
            => LET after == Min(burst' * Per,
                                tokens' + (clock' - last_refill') * Rate)
               IN after = Available - Per]_vars

\* ------------------------------------------------- retry claims
\* The call failed in a way the policy retries.
RetryableFailure(o) ==
    /\ ~o.ok
    /\ \/ o.exc.type = "HTTPStatusError" /\ o.exc.status \in {429, 500, 502, 503, 504}
       \/ o.exc.type \in {"TimeoutException", "ConnectError"}

\* The call failed in a way the policy does not retry.
NonRetryableFailure(o) == ~o.ok /\ ~RetryableFailure(o)

\* The outcome of the latest call of the wrapped function.
LastOutcome == history[Len(history)]

\* C17: the wrapped function is called at most max_attempts times; a call is
\* followed by another only if it failed with a retryable status or a
\* timeout/connection failure; a failure of the last permitted attempt is
\* what the wrapper raises; the wrapper returns only the result of a call
\* that succeeded, and otherwise raises.
C17_NeverSwallows ==
    /\ Len(history) <= max_attempts
    /\ \A k \in 1..(Len(history) - 1) : RetryableFailure(history[k])
    /\ wPc \in {"start", "call", "sleep", "returned", "raised"}
    /\ wPc = "returned"
         => /\ history # <<>>
            /\ LastOutcome.ok
            /\ returned = LastOutcome.value
            /\ raised = NoExc
    /\ wPc = "raised" => raised # NoExc /\ returned = NULL
    /\ (history # <<>> /\ ~LastOutcome.ok) => wPc \in {"sleep", "call", "raised"}
    /\ (history # <<>> /\ Len(history) = max_attempts /\ ~LastOutcome.ok)
         => wPc = "raised" /\ raised = LastOutcome.exc

\* Three attempts, the last of which failed with 503 and was raised.
C17_Witness ==
    /\ max_attempts = MaxAttempts
    /\ Len(history) = MaxAttempts
    /\ wPc = "raised"
    /\ raised = HTTPStatusError(503, NoHeader)
    /\ Len(waits) = MaxAttempts - 1

\* C18: a failure that is not retryable is the last call of the wrapped
\* function: the wrapper raises it at once, having performed no wait for it,
\* whatever attempts remain.
C18_NonRetryableImmediate ==
    \A k \in 1..Len(history) :
        NonRetryableFailure(history[k])
        => /\ k = Len(history)
           /\ wPc = "raised"
           /\ raised = history[k].exc
           /\ Len(waits) = k - 1

\* A 404 and an exception of another kind, each raised with attempts left.
C18_Witness ==
    /\ max_attempts = MaxAttempts
    /\ Len(history) = 2
    /\ history[1].exc = HTTPStatusError(500, NoHeader)
    /\ history[2].exc.type = "KeyError"
    /\ wPc = "raised"
    /\ raised = Exc("KeyError")
    /\ Len(waits) = 1

\* The failure carries a retry-after duration.
CarriesRetryAfter(e) ==
    /\ e.type = "HTTPStatusError"
    /\ e.retry_after.present
    /\ float_ok(e.retry_after.text)

\* C19: the wait before the retry that follows attempt k is the retry-after
\* duration of the failure when it carries one, whatever its retryable
\* status, and backoff_base ** k otherwise.
C19_WaitBeforeRetry ==
    \A k \in 1..Len(waits) :
        LET e == history[k].exc
        IN waits[k] = IF CarriesRetryAfter(e)
                      THEN float(e.retry_after.text)
                      ELSE pow(BackoffBase, k)

\* ------------------------------------------------- API run claims
\* The order of the phases of a run.
RunOrder ==
    <<"pending", "loading", "enriching_lusha", "enriching_apollo", "waiting_webhooks",
      "exporting", "completed">>

\* The status of run id moves from a to b in a permitted way.
RunMove(a, b) ==
    \/ a = NULL /\ b = "pending"
    \/ \E k \in 1..(Len(RunOrder) - 1) : a = RunOrder[k] /\ b = RunOrder[k + 1]
    \/ b = "failed" /\ a \in {"pending", "loading", "enriching_lusha", "enriching_apollo",
                              "waiting_webhooks", "exporting"}

\* The safety half of C20: every change of a run's status is a permitted move.
RunMovesPermitted ==
    [][\A id \in RunIds :
         api_runs'[id].status # api_runs[id].status
         => RunMove(api_runs[id].status, api_runs'[id].status)]_vars

\* C20: a run's status advances one phase at a time along pending, loading,
\* enriching_lusha, enriching_apollo, waiting_webhooks, exporting, completed,
\* or moves to failed; completed and failed are never left; and every run
\* eventually is completed or failed.
C20_RunStateMachine ==
    /\ RunMovesPermitted
    /\ \A id \in RunIds :
         (api_runs[id].status # NULL)
            ~> (api_runs[id].status \in {"completed", "failed"})

\* ------------------------------------------------- loading claims
\* The load of phase 1 happens in this step.
LoadStep == pc = "load" /\ pc' # "load"

\* C24: a load leaves every record that is already stored exactly as it is,
\* enriched or not; loading the same sheet again adds no record, and loading
\* a sheet twice gives the records of loading it once.
C24_LoadIdempotent ==
    /\ [](LET once == load_excel_to_db(<<>>, excel).rows
          IN load_excel_to_db(once, excel).rows = once)
    /\ [][LoadStep
            => /\ \A r \in DOMAIN rows : r \in DOMAIN rows' /\ rows'[r] = rows[r]
               /\ runs > 1 => rows' = rows]_vars

\* The sheet has been loaded a second time over a record that was enriched.
C24_Witness ==
    /\ runs = 2
    /\ pc = "lusha_begin"
    /\ \E r \in DOMAIN rows :
         /\ rows[r].lusha_status = "complete"
         /\ rows[r].apollo_status = "complete"
         /\ rows[r].apollo_mobile # NULL

\* A data row whose first or last name is missing or blank.
SkippedRow(row) == row[1] \in {NULL, "", " "} \/ row[2] \in {NULL, "", " "}

\* C25: after a load into an empty store the row_ids are the positions of
\* the data rows that have both names, every record is pending for both
\* providers, and the count the loader returned is the number of records.
C25_RowIdsExact ==
    /\ [](pc # "load"
            => /\ DOMAIN rows = {i \in 1..Len(excel) : ~SkippedRow(excel[i])}
               /\ results # <<>>
                    => results.total_rows = Cardinality(DOMAIN rows))
    /\ [][(LoadStep /\ rows = <<>>)
            => \A r \in DOMAIN rows' :
                 /\ rows'[r].lusha_status = "pending"
                 /\ rows'[r].apollo_status = "pending"
                 /\ rows'[r].first_name = excel[r][1]
                 /\ rows'[r].last_name = excel[r][2]]_vars

\* A sheet whose first row is skipped and whose second is stored as row 2.
C25_Witness ==
    /\ pc = "lusha_begin"
    /\ Len(excel) = 2
    /\ SkippedRow(excel[1])
    /\ DOMAIN rows = {2}
    /\ results.total_rows = 1

\* ------------------------------------------------- status claims
\* C26: in every state, and so after every provider phase, lusha_status is
\* pending, complete or error and apollo_status is pending, awaiting_webhook,
\* complete, error or timeout, for every record.
C26_StatusDomain ==
    \A r \in DOMAIN rows :
        /\ rows[r].lusha_status \in {"pending", "complete", "error"}
        /\ rows[r].apollo_status
             \in {"pending", "awaiting_webhook", "complete", "error", "timeout"}

\* Both provider phases and the wait are over, with an error on the one
\* side and a timeout and a completion on the other.
C26_Witness ==
    /\ pc = "done"
    /\ DOMAIN rows = {1, 2}
    /\ rows[1].lusha_status = "error"
    /\ rows[2].lusha_status = "complete"
    /\ rows[1].apollo_status = "timeout"
    /\ rows[2].apollo_status = "complete"

\* C28: once apollo_status of a record is complete, error or timeout, no
\* step of the pipeline or of the callback handler changes it.
C28_TerminalStable ==
    [][\A r \in DOMAIN rows :
         rows[r].apollo_status \in {"complete", "error", "timeout"}
         => /\ r \in DOMAIN rows'
            /\ rows'[r].apollo_status = rows[r].apollo_status]_vars

\* C30: every record that is awaiting_webhook with person identifier X has
\* a correlation for X that is owned by that record.
C30_AwaitingHasCorrelation ==
    \A r \in DOMAIN rows :
        rows[r].apollo_status = "awaiting_webhook"
        => \E k \in 1..Len(tracking) :
             /\ tracking[k].apollo_person_id = rows[r].apollo_person_id
             /\ tracking[k].row_id = r

\* ------------------------------------------------- phone claims
\* The number an entry stands for.
EntryNumber(p) ==
    IF phone_api = "lusha" THEN p.phone
    ELSE IF truthy(p.sanitized_number) THEN p.sanitized_number ELSE p.raw_number

\* Number n occurs in the list, and only in entries flagged do-not-call.
DoNotCall(n) ==
    /\ \E k \in 1..Len(phone_list) : EntryNumber(phone_list[k]) = n
    /\ \A k \in 1..Len(phone_list) :
         EntryNumber(phone_list[k]) = n => phone_list[k].do_not_call

\* The Lusha half of C27.
LushaNeverDoNotCall ==
    (phone_pc = "done" /\ phone_api = "lusha")
       => ~DoNotCall(phone_result.mobile) /\ ~DoNotCall(phone_result.direct_dial)

\* C27: the classification of either provider's entries returns a number
\* that is flagged do-not-call neither as mobile nor as direct_dial.
C27_NeverDoNotCall ==
    phone_pc = "done" => ~DoNotCall(phone_result.mobile) /\ ~DoNotCall(phone_result.direct_dial)

\* ------------------------------------------------- run failure claims
\* The service methods of the phases, in the order run_enrichment calls them.
PhaseCalls ==
    <<"load_excel", "enrich_lusha", "enrich_apollo_sync", "wait_for_webhooks",
      "export_excel">>

\* C21: a failed run carries the message of the exception that escaped one
\* of its phases; the service methods called are those up to that phase and
\* then close, none of a later phase; the failure removes nothing from the
\* store, and nothing of the run changes afterwards.
C21_FailureHalts ==
    /\ [](\A id \in RunIds :
            api_runs[id].status = "failed"
            => \E k \in 1..Len(PhaseCalls) :
                 /\ api_runs[id].error_message = PhaseCalls[k]
                 /\ service_calls[id] = SubSeq(PhaseCalls, 1, k) \o <<"close">>
                 /\ tasks[id] = "done")
    /\ [][\A id \in RunIds :
            /\ (api_runs'[id].status = "failed" /\ api_runs[id].status # "failed")
               => /\ Len(run_store'[id]) >= Len(run_store[id])
                  /\ SubSeq(run_store'[id], 1, Len(run_store[id])) = run_store[id]
            /\ api_runs[id].status = "failed"
               => /\ api_runs'[id] = api_runs[id]
                  /\ run_store'[id] = run_store[id]
                  /\ service_calls'[id] = service_calls[id]]_vars

\* A run that failed in the Apollo phase after part of that phase's writes.
C21_Witness ==
    \E id \in RunIds :
        /\ api_runs[id].status = "failed"
        /\ api_runs[id].error_message = "enrich_apollo_sync"
        /\ run_store[id] = <<"load_excel", "enrich_lusha", "enrich_apollo_sync">>
        /\ service_calls[id]
             = <<"load_excel", "enrich_lusha", "enrich_apollo_sync", "close">>

\* C23: every callback is answered with a success response, whatever the
\* body, the handler and the state of the runs.
C23_AlwaysAcknowledged ==
    webhook_response # NoResponse => webhook_response.status_code = 200

\* C29: while a run is in enriching_apollo or waiting_webhooks, the
\* repository installed for the callback endpoint is that run's.
C29_OwnStore ==
    \A id \in RunIds :
        api_runs[id].status \in {"enriching_apollo", "waiting_webhooks"}
        => app_repo = id

\* ------------------------------------------------- cleanup claims
\* The statuses of phases 2-4 of a run.
ProviderPhases == {"enriching_lusha", "enriching_apollo", "waiting_webhooks"}

\* C22: when the task of a run has ended, by completion or by a failure in
\* any phase, close() was the last call on its service and was called once;
\* whenever a run leaves phases 2-4 the repository of the callback endpoint
\* is cleared; and once run_full_pipeline is past phases 2-4, by return or
\* by exception, its listener has been told to stop.
C22_CleanupOnEveryPath ==
    /\ [](\A id \in RunIds :
            /\ tasks[id] = "done"
               => /\ service_calls[id] # <<>>
                  /\ service_calls[id][Len(service_calls[id])] = "close"
                  /\ \A k \in 1..(Len(service_calls[id]) - 1) :
                       service_calls[id][k] # "close"
            /\ api_runs[id].status \in {"completed", "failed"} => tasks[id] = "done")
    /\ [](pc \in {"export", "summary", "done", "raised"} => listener # "running")
    /\ [][\A id \in RunIds :
            (api_runs[id].status \in ProviderPhases
               /\ api_runs'[id].status \notin ProviderPhases)
            => app_repo' = NoRepo]_vars

\* A run that failed while waiting, closed and with the endpoint cleared.
C22_Witness ==
    \E id \in RunIds :
        /\ api_runs[id].status = "failed"
        /\ api_runs[id].error_message = "wait_for_webhooks"
        /\ tasks[id] = "done"
        /\ app_repo = NoRepo
        /\ service_calls[id][Len(service_calls[id])] = "close"

\* ------------------------------------------------- wait phase claims
\* wait_for_webhooks returns with this step.
WaitReturns == pc \in {"wait_begin", "wait_poll", "wait_sweep"} /\ pc' = "stop"

\* C31: when wait_for_webhooks returns, by early exit or by deadline, no
\* record is awaiting_webhook any more.
C31_NoAwaitingAfterWait ==
    [][WaitReturns => AwaitingRows(rows') = {}]_vars

\* ------------------------------------------------- status command claims
\* The number of records whose status for a provider is `pending`.
PendingCount(rs, column) == count_status(rs, column, "pending")

\* C32: the derived `pending` counts of a get_status_summary call are the
\* numbers of records that are pending for the provider and never negative,
\* whatever callback update or timeout sweep happens between its queries.
\* The call is made after the provider phases, so the numbers of pending
\* records do not change during it.
C32_PendingExact ==
    [][(status_pc = "counting" /\ status_pc' = "done")
       => /\ status_result'.lusha.pending = PendingCount(rows, "lusha_status")
          /\ status_result'.apollo.pending = PendingCount(rows, "apollo_status")
          /\ status_result'.lusha.pending >= 0
          /\ status_result'.apollo.pending >= 0]_vars

\* ------------------------------------------------- provider phase claims
\* enrich_lusha / enrich_apollo_sync returns with this step.
LushaReturns == pc \in {"lusha_begin", "lusha_batch"} /\ pc' = "apollo_begin"

ApolloReturns == pc \in {"apollo_begin", "apollo_submit"} /\ pc' = "wait_begin"

\* The number of batch log entries of a provider that hold a record.
TimesSubmitted(bl, api, r) ==
    Cardinality({k \in 1..Len(bl) :
                   /\ bl[k].api = api
                   /\ \E j \in 1..Len(bl[k].row_ids) : bl[k].row_ids[j] = r})

\* C33: when a provider phase returns, every record that was pending for the
\* provider when it started has a non-pending status for it (complete or
\* error for Lusha; awaiting_webhook, complete or error for Apollo), whatever
\* batches failed; only records pending for the provider are submitted to it,
\* so no record is submitted to a provider twice, in this run or a later one.
C33_PhaseLeavesNonePending ==
    /\ [][/\ LushaReturns
             => /\ \A k \in 1..Len(pending) :
                      rows'[pending[k]].lusha_status \in {"complete", "error"}
                /\ PendingCount(rows', "lusha_status") = 0
          /\ ApolloReturns
             => /\ \A k \in 1..Len(pending) :
                      rows'[pending[k]].apollo_status
                         \in {"awaiting_webhook", "complete", "error"}
                /\ PendingCount(rows', "apollo_status") = 0
          /\ BatchStep("lusha_batch")
             => \A j \in 1..Len(Head(chunks)) :
                   rows[Head(chunks)[j]].lusha_status = "pending"
          /\ BatchStep("apollo_submit")
             => \A j \in 1..Len(Head(chunks)) :
                   rows[Head(chunks)[j]].apollo_status = "pending"]_vars
    /\ [](\A r \in DOMAIN rows :
             /\ TimesSubmitted(batch_log, "lusha", r) <= 1
             /\ TimesSubmitted(batch_log, "apollo", r) <= 1)

\* The second run has gone through both provider phases without submitting
\* anything: the four batches are those of the first run, of which one per
\* provider failed.
C33_Witness ==
    /\ runs = 2
    /\ pc = "wait_begin"
    /\ Len(batch_log) = 4
    /\ batch_log[1].status = "error" /\ batch_log[2].status = "complete"
    /\ batch_log[3].status = "error" /\ batch_log[4].status = "complete"
    /\ rows[1].lusha_status = "error" /\ rows[2].lusha_status = "complete"
    /\ rows[1].apollo_status = "error"
    /\ rows[2].apollo_status \in {"awaiting_webhook", "complete", "timeout"}
    /\ results.lusha = [processed |-> 0, success |-> 0]
    /\ results.apollo_sync = [processed |-> 0, matched |-> 0]

\* The batch log entries whose enrich_and_save has not returned or raised.
InFlight(bl) == {k \in 1..Len(bl) : bl[k].status = "submitted"}

\* The provider's status of a record.
ProviderStatus(rs, api, r) ==
    IF api = "lusha" THEN rs[r].lusha_status ELSE rs[r].apollo_status

\* C34: the batches of a provider phase are submitted one after the other:
\* when a batch is submitted, the enrich_and_save of every earlier batch has
\* returned or raised (its log entry is complete or error) and has written
\* the provider's status of all its members; at most one batch is in flight
\* at any time, and it is the one at the head of the remaining batches.
C34_Sequential ==
    /\ [][(BatchStep("lusha_batch") \/ BatchStep("apollo_submit"))
          => \A k \in 1..Len(batch_log) :
                /\ batch_log[k].status \in {"complete", "error"}
                /\ \A j \in 1..Len(batch_log[k].row_ids) :
                      ProviderStatus(rows, batch_log[k].api, batch_log[k].row_ids[j])
                         # "pending"]_vars
    /\ [](Cardinality(InFlight(batch_log)) <= 1)
    /\ [](\A k \in InFlight(batch_log) :
             /\ k = Len(batch_log)
             /\ chunks # <<>>
             /\ batch_log[k].row_ids = Head(chunks))

\* The second Apollo batch is in flight after the first one was saved.
C34_Witness ==
    /\ pc = "apollo_register"
    /\ Len(batch_log) = 4
    /\ batch_log[3].api = "apollo" /\ batch_log[3].status = "complete"
    /\ batch_log[4].api = "apollo" /\ batch_log[4].status = "submitted"
    /\ rows[1].apollo_status = "awaiting_webhook"
    /\ rows[2].apollo_status = "awaiting_webhook"

\* ------------------------------------------------- chunking claims
\* The concatenation of a sequence of sequences.
RECURSIVE Flatten(_)
Flatten(cs) == IF cs = <<>> THEN <<>> ELSE Head(cs) \o Flatten(Tail(cs))

\* C35: for every pending list and batch size >= 1, the chunks _chunked
\* yields concatenate to the pending list, which is in ascending row_id
\* order and holds exactly the pending records; every chunk has at most
\* batch-size members, every chunk but the last exactly batch-size, so each
\* pending record is in exactly one chunk.
C35_ChunksPartition ==
    call_made.fn = "_chunked"
    => LET items == call_made.items
           size == call_made.size
           cs == call_ret[1]
       IN /\ size >= 1
          /\ Flatten(cs) = items
          /\ \A k \in 1..(Len(items) - 1) : items[k] < items[k + 1]
          /\ {items[k] : k \in 1..Len(items)}
                = {r \in DOMAIN rows :
                     ProviderStatus(rows, call_made.api, r) = "pending"}
          /\ \A c \in 1..Len(cs) :
                /\ Len(cs[c]) >= 1
                /\ Len(cs[c]) <= size
                /\ c < Len(cs) => Len(cs[c]) = size
          /\ \A r \in {items[k] : k \in 1..Len(items)} :
                Cardinality({<<c, j>> \in (1..Len(cs)) \X (1..MaxChunkRows) :
                               j <= Len(cs[c]) /\ cs[c][j] = r}) = 1

\* Five pending records in chunks of two: two full chunks and one of one.
C35_Witness ==
    /\ call_made.fn = "_chunked"
    /\ call_made.size = 2
    /\ call_made.items = <<1, 2, 3, 4, 5>>
    /\ call_ret = <<(<<(<<1, 2>>), (<<3, 4>>), (<<5>>)>>)>>

\* ------------------------------------------------- repository claims
\* This step is the call of the repository method fn.
RepoCall(fn) == call_made = NoCall /\ call_made'.fn = fn

\* The fields of a record that belong to neither provider.
SameIdentity(a, b) ==
    /\ a.first_name = b.first_name
    /\ a.last_name = b.last_name
    /\ a.company = b.company

\* The provider-A (Lusha) fields of two records are the same.
SameLushaFields(a, b) ==
    /\ a.lusha_status = b.lusha_status
    /\ a.lusha_email = b.lusha_email
    /\ a.lusha_mobile = b.lusha_mobile
    /\ a.lusha_direct = b.lusha_direct
    /\ a.lusha_error = b.lusha_error

\* The provider-B (Apollo) fields of two records are the same.
SameApolloFields(a, b) ==
    /\ a.apollo_status = b.apollo_status
    /\ a.apollo_email = b.apollo_email
    /\ a.apollo_mobile = b.apollo_mobile
    /\ a.apollo_direct = b.apollo_direct
    /\ a.apollo_person_id = b.apollo_person_id
    /\ a.apollo_error = b.apollo_error

\* C37: mark_webhook_timeouts sets exactly the records that are
\* awaiting_webhook to timeout and returns their number; it changes nothing
\* else of those records, nothing of a record that is pending, complete,
\* error or timeout, no Lusha field, no correlation, and adds or removes no
\* record.
C37_SweepFrame ==
    [][RepoCall("mark_webhook_timeouts")
       => /\ DOMAIN rows' = DOMAIN rows
          /\ call_ret' = <<Cardinality(AwaitingRows(rows))>>
          /\ \A r \in DOMAIN rows :
                /\ SameIdentity(rows'[r], rows[r])
                /\ SameLushaFields(rows'[r], rows[r])
                /\ IF rows[r].apollo_status = "awaiting_webhook"
                   THEN rows'[r] = [rows[r] EXCEPT !.apollo_status = "timeout"]
                   ELSE rows'[r] = rows[r]
          /\ tracking' = tracking
          /\ batch_log' = batch_log
          /\ metadata' = metadata]_vars

\* The sweep ran on a table with a record awaiting and a pending one.
C37_Witness ==
    /\ call_made.fn = "mark_webhook_timeouts"
    /\ call_ret = <<1>>
    /\ DOMAIN rows = {1, 2}
    /\ rows[1].apollo_status = "pending"
    /\ rows[2].apollo_status = "timeout"
    /\ rows[2].lusha_status = "error"
    /\ Len(tracking) = 1
    /\ tracking[1].received_at = NULL

\* C38: update_lusha_result leaves every Apollo field of the record as it
\* was; update_apollo_sync_result and update_apollo_phone_result leave every
\* Lusha field as it was, and update_apollo_phone_result also the Apollo
\* email and person identifier; no update changes first_name, last_name or
\* company, any other record, or the set of records.
C38_UpdateFrame ==
    [][\A fn \in {"update_lusha_result", "update_apollo_sync_result",
                  "update_apollo_phone_result"} :
          RepoCall(fn)
          => LET row_id == call_made'.row_id
             IN /\ DOMAIN rows' = DOMAIN rows
                /\ \A r \in DOMAIN rows : r # row_id => rows'[r] = rows[r]
                /\ tracking' = tracking
                /\ row_id \in DOMAIN rows
                   => /\ SameIdentity(rows'[row_id], rows[row_id])
                      /\ fn = "update_lusha_result"
                         => SameApolloFields(rows'[row_id], rows[row_id])
                      /\ fn # "update_lusha_result"
                         => SameLushaFields(rows'[row_id], rows[row_id])
                      /\ fn = "update_apollo_phone_result"
                         => /\ rows'[row_id].apollo_email = rows[row_id].apollo_email
                            /\ rows'[row_id].apollo_person_id
                                  = rows[row_id].apollo_person_id
                            /\ rows'[row_id].apollo_error = rows[row_id].apollo_error]_vars

\* update_lusha_result rewrote the Lusha fields of a record that a callback
\* had completed, next to another record.
C38_Witness ==
    /\ call_made = [fn |-> "update_lusha_result", row_id |-> 2]
    /\ DOMAIN rows = {1, 2}
    /\ rows[2].lusha_status = "error"
    /\ rows[2].lusha_email = NULL
    /\ rows[2].apollo_status = "complete"
    /\ rows[2].apollo_mobile = "+1555"
    /\ rows[1].apollo_status = "awaiting_webhook"

\* ------------------------------------------------- bulk match claims
\* The batch being saved went through match_bulk.
BulkPath == chunks # <<>> /\ Len(Head(chunks)) > 1

\* Position i of the response holds a match: it is there, not null, and has
\* an identifier.
MatchedAt(matches, i) ==
    /\ i <= Len(matches)
    /\ ~matches[i].none
    /\ matches[i].id \notin {NULL, ""}

\* C36: in the bulk path the match at response position i is written to the
\* record of the i-th submitted person and to no other record, and the
\* correlation it creates is owned by that record; for a null entry, an entry
\* without identifier or a position beyond the end of the response the
\* record is written `error`, without person identifier, and no correlation
\* is created.  When the batch is saved every member carries the identifier
\* and email of the match at its position, or is `error`.
C36_BulkPositional ==
    [][/\ (pc = "apollo_save" /\ BulkPath /\ OrchestratorStep /\ idx <= Len(Head(chunks)))
          => LET row_id == Head(chunks)[idx]
             IN /\ \A r \in DOMAIN rows : r # row_id => rows'[r] = rows[r]
                /\ tracking' = tracking
                /\ SameLushaFields(rows'[row_id], rows[row_id])
                /\ IF MatchedAt(resp, idx)
                   THEN /\ rows'[row_id].apollo_status = "awaiting_webhook"
                        /\ rows'[row_id].apollo_person_id = resp[idx].id
                        /\ rows'[row_id].apollo_email = resp[idx].email
                        /\ pc' = "apollo_register"
                   ELSE /\ rows'[row_id].apollo_status = "error"
                        /\ rows'[row_id].apollo_error = "No match found"
                        /\ rows'[row_id].apollo_person_id = NULL
                        /\ rows'[row_id].apollo_email = NULL
                        /\ pc' = "apollo_save"
       /\ (pc = "apollo_register" /\ BulkPath /\ OrchestratorStep)
          => /\ rows' = rows
             /\ MatchedAt(resp, idx)
             /\ \/ tracking' = tracking /\ Registered(tracking, resp[idx].id)
                \/ /\ ~Registered(tracking, resp[idx].id)
                   /\ Len(tracking') = Len(tracking) + 1
                   /\ SubSeq(tracking', 1, Len(tracking)) = tracking
                   /\ tracking'[Len(tracking')].apollo_person_id = resp[idx].id
                   /\ tracking'[Len(tracking')].row_id = Head(chunks)[idx]
       /\ (pc = "apollo_save" /\ BulkPath /\ pc' = "apollo_submit")
          => \A i \in 1..Len(Head(chunks)) :
                LET r == Head(chunks)[i]
                IN IF MatchedAt(resp, i)
                   THEN /\ rows[r].apollo_person_id = resp[i].id
                        /\ rows[r].apollo_email = resp[i].email
                        /\ rows[r].apollo_status \in {"awaiting_webhook", "complete"}
                   ELSE /\ rows[r].apollo_person_id = NULL
                        /\ rows[r].apollo_status = "error"]_vars

\* A bulk response with a null entry at position 1 and a match at position
\* 2: the first record is `error`, the second carries the match and owns its
\* correlation.
C36_Witness ==
    /\ pc = "apollo_save"
    /\ BulkPath
    /\ idx = 3
    /\ Len(resp) = 2 /\ resp[1].none /\ resp[2].id = "p1"
    /\ rows[1].apollo_status = "error"
    /\ rows[2].apollo_person_id = "p1"
    /\ Len(tracking) = 1
    /\ tracking[1].row_id = 2

\* C40: on the deadline path the result of wait_for_webhooks agrees with the
\* correlation table at sweep time: timed_out is the number of correlations
\* not received, received the number of correlations received, and the two
\* add up to expected.
C40_DeadlineResultConsistent ==
    [][(pc = "wait_sweep" /\ OrchestratorStep)
       => LET result == results'.apollo_webhooks
          IN /\ result.timed_out = Cardinality(Unreceived(tracking))
             /\ result.received = Len(tracking) - Cardinality(Unreceived(tracking))
             /\ result.received + result.timed_out = result.expected]_vars

\* ------------------------------------------------- client claims
\* The client makes a request in this step.
RequestStep == Len(history') = Len(history) + 1

\* An acquire() call of the client returns in this step.
AcquireReturns == completed' = completed + 1

\* C39: every request attempt of a client method, the retries of with_retry
\* included, is preceded by one completed acquire() of the client's limiter
\* made for that attempt, and each acquire() either takes one token from the
\* refilled balance or waits until one is due and leaves the balance at
\* zero; while the wrapper waits for a retry backoff, and when it has
\* returned or raised, the client is not inside acquire() and the limiter's
\* lock is free.
C39_AcquireBeforeRequest ==
    /\ [](completed \in {Len(history), Len(history) + 1})
    /\ [][/\ RequestStep
             => /\ completed = Len(history) + 1
                /\ aPc[1] = "idle"
                /\ lock = NoCaller
                /\ wPc = "call"
          /\ AcquireReturns
             => /\ completed = Len(history)
                /\ wPc = "call"
                /\ \/ /\ aPc[1] = "lock"
                      /\ refill(tokens, clock - last_refill, burst) >= Per
                      /\ tokens' = refill(tokens, clock - last_refill, burst) - Per
                   \/ /\ aPc[1] = "sleep"
                      /\ clock >= wake_at
                      /\ tokens' = 0]_vars
    /\ [](wPc \in {"sleep", "returned", "raised"}
            => /\ completed = Len(history)
               /\ aPc[1] = "idle"
               /\ lock = NoCaller)

\* The third attempt returned: the bucket of two tokens was empty after the
\* first two, so its acquire() waited for a token before the request.
C39_Witness ==
    /\ wPc = "returned"
    /\ Len(history) = 3
    /\ completed = 3
    /\ Len(waits) = 2
    /\ last_refill = 0
    /\ tokens = 0
    /\ clock >= TicksPerToken

====
